---------------------------- MODULE Spec2Model ----------------------------
(***************************************************************************)
(* State-machine model of the PSYKER runtime: the load pipeline            *)
(* (parse_path -> validate_document -> copy/merge/swap of the registries), *)
(* the execution engine (run_task: worker selection, access enforcement,   *)
(* capability enforcement, statement dispatch) and the sandbox path        *)
(* containment check.                                                      *)
(***************************************************************************)
EXTENDS Integers, Sequences, FiniteSets, TLC

(***************************************************************************)
(* Bounds of the model.                                                    *)
(***************************************************************************)
MaxCount == 2
MaxUses == 2
MaxCalls == 6

\* The longest path given to the sandbox, in components.
MaxPathLen == 3

(***************************************************************************)
(* Optional values.  Python's None for an Optional[str] field.             *)
(***************************************************************************)
NONE == "<None>"

\* None for an Optional field that holds an object (TaskDef.access).
None == [none |-> TRUE]

Truthy(s) == s # NONE /\ s # ""

(***************************************************************************)
(* Small general helpers.                                                  *)
(***************************************************************************)
Range(s) == {s[i] : i \in 1..Len(s)}

SeqsUpTo(S, n) == UNION {[1..k -> S] : k \in 0..n}

RECURSIVE Repeat(_, _)
Repeat(x, n) == IF n <= 0 THEN <<>> ELSE <<x>> \o Repeat(x, n - 1)

(***************************************************************************)
(* errors.py: PsykerError(message, span, hint) and its subclasses.  The    *)
(* message is kept as the sequence of the pieces the f-string joins, the   *)
(* span as (line, column); NoSpan is span=None.                            *)
(***************************************************************************)
NoSpan == [line |-> 0, column |-> 0]

PsykerError(type, message, span) ==
    [type |-> type, message |-> message, span |-> span]

NoError == PsykerError("", <<>>, NoSpan)


(***************************************************************************)
(* token.py / lexer.py.  A source text is kept as the sequence of its      *)
(* lexemes with their line and column; a lexeme of kind "BAD" is a         *)
(* character the scanner rejects.  tokenize appends the EOF token.         *)
(***************************************************************************)
Token(kind, value, line, column) ==
    [kind |-> kind, value |-> value, line |-> line, column |-> column]

_SYMBOLS == {"{", "}", "[", "]", ":", ",", ";", "="}

Span(token) == [line |-> token.line, column |-> token.column]

FirstBad(text) ==
    IF \E i \in 1..Len(text) : text[i].kind = "BAD"
    THEN CHOOSE i \in 1..Len(text) :
            /\ text[i].kind = "BAD"
            /\ \A j \in 1..(i - 1) : text[j].kind # "BAD"
    ELSE 0

LastLine(text) == IF text = <<>> THEN 1 ELSE text[Len(text)].line + 1

tokenize(text) ==
    IF FirstBad(text) > 0
    THEN [err |-> PsykerError("SyntaxError",
                      <<"Unexpected character '", text[FirstBad(text)].value, "'">>,
                      Span(text[FirstBad(text)])),
          tokens |-> <<>>]
    ELSE [err |-> NoError,
          tokens |-> Append(text, Token("EOF", "", LastLine(text), 1))]

(***************************************************************************)
(* parser.py: keyword vocabularies.                                        *)
(***************************************************************************)
_TASK_OPS == {"fs.open", "fs.create", "exec.ps", "exec.cmd"}
_WORKER_CAPS == {"fs.open", "fs.create", "exec.ps", "exec.cmd"}
_TASK_ONLY == {"task", "@access", "agents", "workers"} \cup _TASK_OPS
_WORKER_ONLY == {"worker", "allow", "sandbox", "cwd"} \cup _WORKER_CAPS
_AGENT_ONLY == {"agent", "use", "count"}

(***************************************************************************)
(* parser.py: the Parser's primitive steps.  Each takes the token list and *)
(* the parser index and yields [err, val, index]: the raised error (or     *)
(* NoError), the value returned and the index afterwards.                  *)
(***************************************************************************)
Ok(val, index) == [err |-> NoError, val |-> val, index |-> index]

Raise(err, index) == [err |-> err, val |-> <<>>, index |-> index]

Failed(r) == r.err.type # ""

\* Python runs the rest of a function only when the call before it did not raise.
Then(r, rest(_)) == IF Failed(r) THEN r ELSE rest(r)

\* A local variable: the value is computed once and the rest reads it.
With(value, rest(_)) == rest(value)

RECURSIVE _skip_comments(_, _)
_skip_comments(tokens, index) ==
    IF tokens[index].kind = "COMMENT"
    THEN _skip_comments(tokens, index + 1)
    ELSE index

_peek(tokens, index) == tokens[_skip_comments(tokens, index)]

_expect_kind(tokens, index, kind) ==
    LET i == _skip_comments(tokens, index)
        token == tokens[i]
    IN  IF token.kind # kind
        THEN Raise(PsykerError("SyntaxError",
                       <<"Expected token kind '", kind, "', got '", token.kind, "'">>,
                       Span(token)), i)
        ELSE Ok(token, i + 1)

_expect_symbol(tokens, index, value) ==
    LET i == _skip_comments(tokens, index)
        token == tokens[i]
    IN  IF token.value # value
        THEN Raise(PsykerError("SyntaxError",
                       <<"Expected '", value, "', got '", token.value, "'">>,
                       Span(token)), i)
        ELSE Ok(token, i + 1)

_expect_ident(tokens, index) ==
    LET i == _skip_comments(tokens, index)
        token == tokens[i]
    IN  IF token.kind # "IDENT"
        THEN Raise(PsykerError("SyntaxError",
                       <<"Expected identifier, got '", token.value, "'">>,
                       Span(token)), i)
        ELSE Ok(token, i + 1)

_expect_keyword(tokens, index, value) ==
    LET i == _skip_comments(tokens, index)
        token == tokens[i]
    IN  IF token.value # value
        THEN Raise(PsykerError("SyntaxError",
                       <<"Expected keyword '", value, "', got '", token.value, "'">>,
                       Span(token)), i)
        ELSE Ok(token, i + 1)

_expect_keyword_any(tokens, index, values, allow_ident) ==
    LET i == _skip_comments(tokens, index)
        token == tokens[i]
        kinds == IF allow_ident THEN {"KEYWORD", "IDENT"} ELSE {"KEYWORD"}
    IN  IF \/ token.kind \notin kinds
           \/ (token.value \notin values /\ ~(allow_ident /\ token.kind = "IDENT"))
        THEN Raise(PsykerError("SyntaxError",
                       <<"Expected one of the allowed keywords. Got '", token.value, "'.">>,
                       Span(token)), i)
        ELSE Ok(token, i + 1)

_expect_path_or_string(tokens, index) ==
    LET i == _skip_comments(tokens, index)
        token == tokens[i]
    IN  IF token.kind \notin {"PATH", "STRING"}
        THEN Raise(PsykerError("SyntaxError",
                       <<"Expected path or string, got '", token.value, "'">>,
                       Span(token)), i)
        ELSE Ok(token, i + 1)

\* _reject_cross_dialect raises or returns None; the index only skips comments.
_reject_cross_dialect(tokens, index, forbidden, dialect_label) ==
    LET i == _skip_comments(tokens, index)
        token == tokens[i]
    IN  IF token.value \in forbidden
        THEN Raise(PsykerError("DialectError",
                       <<"'", token.value, "' is not allowed in ", dialect_label>>,
                       Span(token)), i)
        ELSE Ok(<<>>, i)

(***************************************************************************)
(* int(count_token.value): the decimal value of an INT token's digits.     *)
(***************************************************************************)
Digit == [d \in 0..9 |-> CASE d = 0 -> "0" [] d = 1 -> "1" [] d = 2 -> "2"
                           [] d = 3 -> "3" [] d = 4 -> "4" [] d = 5 -> "5"
                           [] d = 6 -> "6" [] d = 7 -> "7" [] d = 8 -> "8"
                           [] OTHER -> "9"]

int(value) ==
    CHOOSE n \in 0..9 : value \in {Digit[n], "0" \o Digit[n]}

(***************************************************************************)
(* parser.py: agent files.                                                 *)
(***************************************************************************)
AgentUse(worker_name, count, line, column) ==
    [worker_name |-> worker_name, count |-> count, line |-> line, column |-> column]

AgentDef(name, uses, source_path) ==
    [name |-> name, uses |-> uses, source_path |-> source_path]

\* One use clause: use worker <ident> count = <int> ;
_parse_agent_use(tokens, index) ==
    Then(_expect_keyword(tokens, index, "use"), LAMBDA r1 :
    Then(_expect_keyword(tokens, r1.index, "worker"), LAMBDA r2 :
    Then(_expect_ident(tokens, r2.index), LAMBDA worker_name :
    Then(_expect_keyword(tokens, worker_name.index, "count"), LAMBDA r4 :
    Then(_expect_symbol(tokens, r4.index, "="), LAMBDA r5 :
    Then(_expect_kind(tokens, r5.index, "INT"), LAMBDA count_token :
    Then(_expect_symbol(tokens, count_token.index, ";"), LAMBDA r7 :
        Ok(AgentUse(worker_name.val.value, int(count_token.val.value),
                    worker_name.val.line, worker_name.val.column),
           r7.index))))))))

\* The while loop of _parse_agent_def, from the index after "{".
RECURSIVE _parse_agent_uses(_, _, _)
_parse_agent_uses(tokens, index, uses) ==
    LET i == _skip_comments(tokens, index)
        token == tokens[i]
    IN  IF token.value = "}"
        THEN Ok(uses, i + 1)
        ELSE IF token.value \in (_TASK_ONLY \cup _WORKER_ONLY)
        THEN Raise(PsykerError("DialectError",
                       <<"'", token.value, "' is not allowed in agent files (.psya)">>,
                       Span(token)), i)
        ELSE Then(_parse_agent_use(tokens, i), LAMBDA use :
                 _parse_agent_uses(tokens, use.index, Append(uses, use.val)))

_parse_agent_def(tokens, index, path) ==
    Then(_expect_keyword(tokens, index, "agent"), LAMBDA r1 :
    Then(_expect_ident(tokens, r1.index), LAMBDA name :
    Then(_expect_symbol(tokens, name.index, "{"), LAMBDA r3 :
    Then(_parse_agent_uses(tokens, r3.index, <<>>), LAMBDA uses :
        Ok(AgentDef(name.val.value, uses.val, path), uses.index)))))

AgentDocument(agent) == [doc |-> "AgentDocument", agent |-> agent]

parse_agent_file(tokens, path) ==
    Then(_reject_cross_dialect(tokens, 1, {"task", "worker", "@access"} \cup _TASK_OPS,
                               "agent files (.psya)"), LAMBDA r1 :
    Then(_parse_agent_def(tokens, r1.index, path), LAMBDA agent :
    Then(_expect_kind(tokens, agent.index, "EOF"), LAMBDA r3 :
        Ok(AgentDocument(agent.val), r3.index))))

(***************************************************************************)
(* parser.py: worker files.                                                *)
(***************************************************************************)
WorkerAllow(capability, arg, line, column) ==
    [capability |-> capability, arg |-> arg, line |-> line, column |-> column]

WorkerDef(name, sandbox, cwd, allows, source_path) ==
    [name |-> name, sandbox |-> sandbox, cwd |-> cwd, allows |-> allows,
     source_path |-> source_path]

\* The allow branch of _parse_worker_def, from the index after "allow".
_parse_worker_allow(tokens, index) ==
    Then(_expect_keyword_any(tokens, index, _WORKER_CAPS, TRUE), LAMBDA capability_token :
        IF capability_token.val.value \notin _WORKER_CAPS
        THEN Raise(PsykerError("SyntaxError",
                       <<"Unknown capability '", capability_token.val.value, "'">>,
                       Span(capability_token.val)), capability_token.index)
        ELSE LET i == _skip_comments(tokens, capability_token.index)
                 has_arg == tokens[i].kind \in {"PATH", "STRING", "IDENT"}
                 arg == IF has_arg THEN tokens[i].value ELSE NONE
             IN  Then(_expect_symbol(tokens, IF has_arg THEN i + 1 ELSE i, ";"), LAMBDA r3 :
                     Ok(WorkerAllow(capability_token.val.value, arg,
                                    capability_token.val.line, capability_token.val.column),
                        r3.index)))

\* The sandbox / cwd branches: <path-or-string> ;
_parse_worker_path(tokens, index) ==
    Then(_expect_path_or_string(tokens, index), LAMBDA path_token :
    Then(_expect_symbol(tokens, path_token.index, ";"), LAMBDA r2 :
        Ok(path_token.val.value, r2.index)))

\* The while loop of _parse_worker_def; acc holds sandbox, cwd and allows.
RECURSIVE _parse_worker_body(_, _, _)
_parse_worker_body(tokens, index, acc) ==
    LET i == _skip_comments(tokens, index)
        token == tokens[i]
    IN  IF token.value = "}"
        THEN Ok(acc, i + 1)
        ELSE IF token.value \in (_TASK_ONLY \cup _AGENT_ONLY)
        THEN Raise(PsykerError("DialectError",
                       <<"'", token.value, "' is not allowed in worker files (.psyw)">>,
                       Span(token)), i)
        ELSE IF token.value = "sandbox"
        THEN Then(_parse_worker_path(tokens, i + 1), LAMBDA r :
                 _parse_worker_body(tokens, r.index, [acc EXCEPT !.sandbox = r.val]))
        ELSE IF token.value = "cwd"
        THEN Then(_parse_worker_path(tokens, i + 1), LAMBDA r :
                 _parse_worker_body(tokens, r.index, [acc EXCEPT !.cwd = r.val]))
        ELSE IF token.value = "allow"
        THEN Then(_parse_worker_allow(tokens, i + 1), LAMBDA r :
                 _parse_worker_body(tokens, r.index, [acc EXCEPT !.allows = Append(@, r.val)]))
        ELSE Raise(PsykerError("SyntaxError",
                       <<"Unexpected token '", token.value, "' in worker definition">>,
                       Span(token)), i)

_parse_worker_def(tokens, index, path) ==
    Then(_expect_keyword(tokens, index, "worker"), LAMBDA r1 :
    Then(_expect_ident(tokens, r1.index), LAMBDA name :
    Then(_expect_symbol(tokens, name.index, "{"), LAMBDA r3 :
    Then(_parse_worker_body(tokens, r3.index,
             [sandbox |-> NONE, cwd |-> NONE, allows |-> <<>>]), LAMBDA body :
        Ok(WorkerDef(name.val.value, body.val.sandbox, body.val.cwd, body.val.allows, path),
           body.index)))))

WorkerDocument(worker) == [doc |-> "WorkerDocument", worker |-> worker]

parse_worker_file(tokens, path) ==
    Then(_reject_cross_dialect(tokens, 1, {"task", "agent", "@access"},
                               "worker files (.psyw)"), LAMBDA r1 :
    Then(_parse_worker_def(tokens, r1.index, path), LAMBDA worker :
    Then(_expect_kind(tokens, worker.index, "EOF"), LAMBDA r3 :
        Ok(WorkerDocument(worker.val), r3.index))))

(***************************************************************************)
(* parser.py: task files.                                                  *)
(***************************************************************************)
AccessBlock(agents, workers) == [agents |-> agents, workers |-> workers]

TaskStmt(op, arg, line, column) ==
    [op |-> op, arg |-> arg, line |-> line, column |-> column]

TaskDef(name, access, statements, source_path) ==
    [name |-> name, access |-> access, statements |-> statements,
     source_path |-> source_path]

\* The while loop of _parse_ident_list, after the first identifier.
RECURSIVE _parse_ident_rest(_, _, _)
_parse_ident_rest(tokens, index, items) ==
    LET i == _skip_comments(tokens, index)
    IN  IF tokens[i].value = ","
        THEN Then(_expect_ident(tokens, i + 1), LAMBDA item :
                 _parse_ident_rest(tokens, item.index, Append(items, item.val.value)))
        ELSE Ok(items, i)

_parse_ident_list(tokens, index) ==
    Then(_expect_symbol(tokens, index, "["), LAMBDA r1 :
    Then(IF _peek(tokens, r1.index).value # "]"
         THEN Then(_expect_ident(tokens, r1.index), LAMBDA first :
                  _parse_ident_rest(tokens, first.index, <<first.val.value>>))
         ELSE Ok(<<>>, r1.index), LAMBDA items :
    Then(_expect_symbol(tokens, items.index, "]"), LAMBDA r3 :
        Ok(items.val, r3.index))))

\* One access field: (agents | workers) : [ ... ]
_parse_access_field(tokens, index) ==
    Then(_expect_keyword_any(tokens, index, {"agents", "workers"}, FALSE), LAMBDA field :
    Then(_expect_symbol(tokens, field.index, ":"), LAMBDA r2 :
    Then(_parse_ident_list(tokens, r2.index), LAMBDA values :
        Ok([field |-> field.val.value, values |-> values.val], values.index))))

WithField(block, f) ==
    IF f.field = "agents" THEN [block EXCEPT !.agents = f.values]
    ELSE [block EXCEPT !.workers = f.values]

\* The fields of an access block, from the index after "{".
_parse_access_fields(tokens, index) ==
    IF _peek(tokens, index).value = "}"
    THEN Ok(AccessBlock(<<>>, <<>>), index)
    ELSE Then(_parse_access_field(tokens, index), LAMBDA first :
             LET j == _skip_comments(tokens, first.index)
             IN  IF tokens[j].value # ","
                 THEN Ok(WithField(AccessBlock(<<>>, <<>>), first.val), j)
                 ELSE Then(_expect_keyword_any(tokens, j + 1, {"agents", "workers"}, FALSE),
                           LAMBDA second_field :
                      IF second_field.val.value = first.val.field
                      THEN Raise(PsykerError("SyntaxError",
                                     <<"Duplicate access field '", second_field.val.value, "'">>,
                                     Span(second_field.val)), second_field.index)
                      ELSE Then(_parse_access_field(tokens, j + 1), LAMBDA second :
                               Ok(WithField(WithField(AccessBlock(<<>>, <<>>), first.val),
                                            second.val),
                                  second.index))))

_parse_access_block(tokens, index) ==
    Then(_expect_symbol(tokens, index, "{"), LAMBDA r1 :
    Then(_parse_access_fields(tokens, r1.index), LAMBDA fields :
    Then(_expect_symbol(tokens, fields.index, "}"), LAMBDA r3 :
        Ok(fields.val, r3.index))))

_parse_task_stmt(tokens, index) ==
    Then(_expect_keyword_any(tokens, index, _TASK_OPS, FALSE), LAMBDA op :
    Then(_expect_path_or_string(tokens, op.index), LAMBDA arg :
    Then(_expect_symbol(tokens, arg.index, ";"), LAMBDA r3 :
        Ok(TaskStmt(op.val.value, arg.val.value, op.val.line, op.val.column), r3.index))))

\* The while loop of _parse_task_def, from the index after "{".
RECURSIVE _parse_task_stmts(_, _, _)
_parse_task_stmts(tokens, index, statements) ==
    LET i == _skip_comments(tokens, index)
    IN  IF tokens[i].value = "}"
        THEN Ok(statements, i + 1)
        ELSE Then(_reject_cross_dialect(tokens, i,
                      {"worker", "agent", "use", "allow", "sandbox", "cwd"},
                      "task files (.psy)"), LAMBDA r1 :
             Then(_parse_task_stmt(tokens, i), LAMBDA stmt :
                 _parse_task_stmts(tokens, stmt.index, Append(statements, stmt.val))))

_parse_task_def(tokens, index, path) ==
    Then(IF _peek(tokens, index).value = "@access"
         THEN _parse_access_block(tokens, _skip_comments(tokens, index) + 1)
         ELSE Ok(None, index), LAMBDA access :
    Then(_expect_keyword(tokens, access.index, "task"), LAMBDA keyword :
    Then(_expect_ident(tokens, keyword.index), LAMBDA name :
    Then(_expect_symbol(tokens, name.index, "{"), LAMBDA r4 :
    Then(_parse_task_stmts(tokens, r4.index, <<>>), LAMBDA statements :
        Ok(TaskDef(name.val.value, access.val, statements.val, path), statements.index))))))

TaskDocument(tasks_) == [doc |-> "TaskDocument", tasks |-> tasks_]

\* The while loop of parse_task_file.
RECURSIVE _parse_task_defs(_, _, _, _)
_parse_task_defs(tokens, index, path, defs) ==
    LET i == _skip_comments(tokens, index)
    IN  IF tokens[i].kind = "EOF"
        THEN Ok(TaskDocument(defs), i)
        ELSE Then(_reject_cross_dialect(tokens, i, {"worker", "agent"}, "task files (.psy)"),
                  LAMBDA r1 :
             Then(_parse_task_def(tokens, i, path), LAMBDA def :
                 _parse_task_defs(tokens, def.index, path, Append(defs, def.val))))

parse_task_file(tokens, path) == _parse_task_defs(tokens, 1, path, <<>>)

(***************************************************************************)
(* parser.py: parse_path.  A source file is [path, suffix, text]; the      *)
(* file is tokenized before its suffix is looked at.                       *)
(***************************************************************************)
lower(suffix) ==
    CASE suffix = ".PSY" -> ".psy"
      [] suffix = ".PSYW" -> ".psyw"
      [] suffix = ".PSYA" -> ".psya"
      [] OTHER -> suffix

parse_path(file) ==
    Then(tokenize(file.text), LAMBDA lexed :
        IF lower(file.suffix) = ".psy" THEN parse_task_file(lexed.tokens, file.path)
        ELSE IF lower(file.suffix) = ".psyw" THEN parse_worker_file(lexed.tokens, file.path)
        ELSE IF lower(file.suffix) = ".psya" THEN parse_agent_file(lexed.tokens, file.path)
        ELSE Raise(PsykerError("DialectError",
                       <<"Unsupported file extension '", file.suffix, "'">>,
                       [line |-> 1, column |-> 1]), 0))

(***************************************************************************)
(* validator.py.                                                           *)
(***************************************************************************)
ValidationContext(workers_, agents_, tasks_) ==
    [workers |-> workers_, agents |-> agents_, tasks |-> tasks_]

\* validate_agent with the two checks of a use clause in the other order.
RECURSIVE validate_uses_count_first(_, _, _)
validate_uses_count_first(agent, context, i) ==
    IF i > Len(agent.uses) THEN NoError
    ELSE IF agent.uses[i].count <= 0
    THEN PsykerError("ReferenceError",
             <<"Agent '", agent.name, "' has invalid worker count">>,
             [line |-> agent.uses[i].line, column |-> agent.uses[i].column])
    ELSE IF agent.uses[i].worker_name \notin DOMAIN context.workers
    THEN PsykerError("ReferenceError",
             <<"Agent '", agent.name, "' references unknown worker '",
               agent.uses[i].worker_name, "'">>,
             [line |-> agent.uses[i].line, column |-> agent.uses[i].column])
    ELSE validate_uses_count_first(agent, context, i + 1)

\* validate_agent that checks the counts and not the worker names.
RECURSIVE validate_uses_counts_only(_, _, _)
validate_uses_counts_only(agent, context, i) ==
    IF i > Len(agent.uses) THEN NoError
    ELSE IF agent.uses[i].count <= 0
    THEN PsykerError("ReferenceError",
             <<"Agent '", agent.name, "' has invalid worker count">>,
             [line |-> agent.uses[i].line, column |-> agent.uses[i].column])
    ELSE validate_uses_counts_only(agent, context, i + 1)

\* The for loop of validate_agent, from use number i; yields the error raised.
RECURSIVE validate_uses(_, _, _)
validate_uses(agent, context, i) ==
    IF i > Len(agent.uses) THEN NoError
    ELSE LET use == agent.uses[i]
         IN  IF use.worker_name \notin DOMAIN context.workers
             THEN PsykerError("ReferenceError",
                      <<"Agent '", agent.name, "' references unknown worker '",
                        use.worker_name, "'">>,
                      [line |-> use.line, column |-> use.column])
             ELSE IF use.count <= 0
             THEN PsykerError("ReferenceError",
                      <<"Agent '", agent.name, "' has invalid worker count">>,
                      [line |-> use.line, column |-> use.column])
             ELSE validate_uses(agent, context, i + 1)

validate_agent(agent, context) == validate_uses(agent, context, 1)

validate_document(document, context) ==
    IF document.doc = "WorkerDocument" THEN NoError
    ELSE IF document.doc = "TaskDocument" THEN NoError
    ELSE IF document.doc = "AgentDocument" THEN validate_agent(document.agent, context)
    ELSE PsykerError("TypeError", <<"Unknown document type">>, NoSpan)

(***************************************************************************)
(* runtime.py: the registries are dicts, kept as functions on their keys.  *)
(***************************************************************************)
EmptyDict == <<>>

\* dict.setdefault(key, value): a key already present keeps its value.
Put_setdefault(dict, key, value) ==
    [k \in (DOMAIN dict) \cup {key} |-> IF k \in DOMAIN dict THEN dict[k] ELSE value]

Put(dict, key, value) ==
    [k \in (DOMAIN dict) \cup {key} |-> IF k = key THEN value ELSE dict[k]]

\* for task in document.tasks: tasks_copy[task.name] = task
RECURSIVE PutTasks(_, _, _)
PutTasks(tasks_copy, defs, i) ==
    IF i > Len(defs) THEN tasks_copy
    ELSE PutTasks(Put(tasks_copy, defs[i].name, defs[i]), defs, i + 1)

\* load_file that registers the document in the live registries before it
\* validates it.
load_file_in_place(reg, file) ==
    With(parse_path(file), LAMBDA parsed :
        IF Failed(parsed) THEN [err |-> parsed.err, document |-> None, reg |-> reg]
        ELSE With(IF parsed.val.doc = "WorkerDocument"
                  THEN [reg EXCEPT !.workers = Put(@, parsed.val.worker.name, parsed.val.worker)]
                  ELSE IF parsed.val.doc = "AgentDocument"
                  THEN [reg EXCEPT !.agents = Put(@, parsed.val.agent.name, parsed.val.agent)]
                  ELSE [reg EXCEPT !.tasks = PutTasks(@, parsed.val.tasks, 1)], LAMBDA merged :
             With(validate_document(parsed.val,
                      ValidationContext(reg.workers, reg.agents, reg.tasks)), LAMBDA invalid :
                 IF invalid.type # ""
                 THEN [err |-> invalid, document |-> None, reg |-> merged]
                 ELSE [err |-> NoError, document |-> parsed.val, reg |-> merged])))

\* load_file that adds the uses of an agent file to those of the agent of
\* that name already registered.
load_file_merging_uses(reg, file) ==
    With(parse_path(file), LAMBDA parsed :
        IF Failed(parsed) THEN [err |-> parsed.err, document |-> None, reg |-> reg]
        ELSE With(validate_document(parsed.val,
                      ValidationContext(reg.workers, reg.agents, reg.tasks)), LAMBDA invalid :
            IF invalid.type # ""
            THEN [err |-> invalid, document |-> None, reg |-> reg]
            ELSE IF parsed.val.doc = "WorkerDocument"
            THEN [err |-> NoError, document |-> parsed.val,
                  reg |-> [reg EXCEPT !.workers =
                              Put(@, parsed.val.worker.name, parsed.val.worker)]]
            ELSE IF parsed.val.doc = "AgentDocument"
            THEN [err |-> NoError, document |-> parsed.val,
                  reg |-> [reg EXCEPT !.agents =
                              Put(@, parsed.val.agent.name,
                                  IF parsed.val.agent.name \in DOMAIN reg.agents
                                  THEN [parsed.val.agent EXCEPT !.uses =
                                           reg.agents[parsed.val.agent.name].uses \o @]
                                  ELSE parsed.val.agent)]]
            ELSE [err |-> NoError, document |-> parsed.val,
                  reg |-> [reg EXCEPT !.tasks = PutTasks(@, parsed.val.tasks, 1)]]))

\* load_file on the registries reg = [workers, agents, tasks]: the error
\* raised (or NoError), the document returned and the registries afterwards.
load_file(reg, file) ==
    With(parse_path(file), LAMBDA parsed :
        IF Failed(parsed) THEN [err |-> parsed.err, document |-> None, reg |-> reg]
        ELSE With(validate_document(parsed.val,
                      ValidationContext(reg.workers, reg.agents, reg.tasks)), LAMBDA invalid :
            IF invalid.type # ""
            THEN [err |-> invalid, document |-> None, reg |-> reg]
            ELSE IF parsed.val.doc = "WorkerDocument"
            THEN [err |-> NoError, document |-> parsed.val,
                  reg |-> [reg EXCEPT !.workers =
                              Put(@, parsed.val.worker.name, parsed.val.worker)]]
            ELSE IF parsed.val.doc = "AgentDocument"
            THEN [err |-> NoError, document |-> parsed.val,
                  reg |-> [reg EXCEPT !.agents =
                              Put(@, parsed.val.agent.name, parsed.val.agent)]]
            ELSE [err |-> NoError, document |-> parsed.val,
                  reg |-> [reg EXCEPT !.tasks = PutTasks(@, parsed.val.tasks, 1)]]))

(***************************************************************************)
(* The filesystem the sandbox works on.  An absolute path is the sequence  *)
(* of its components (<<>> is "/"); fs maps each existing path to its node *)
(* [kind, target, text]: kind is "dir", "file" or "link"; a link's target  *)
(* is a path value.  A path value (pathlib.Path) is [abs, parts], where a  *)
(* part may be "..".                                                       *)
(***************************************************************************)
PathValue(abs, parts) == [abs |-> abs, parts |-> parts]

Dir == [kind |-> "dir", target |-> PathValue(TRUE, <<>>), text |-> ""]

File(text) == [kind |-> "file", target |-> PathValue(TRUE, <<>>), text |-> text]

Link(target) == [kind |-> "link", target |-> target, text |-> ""]

Parent(path) == IF path = <<>> THEN <<>> ELSE SubSeq(path, 1, Len(path) - 1)

IsPrefix(p, q) == Len(p) <= Len(q) /\ SubSeq(q, 1, Len(p)) = p

Prefixes(path) == {SubSeq(path, 1, k) : k \in 1..Len(path)}

NumLinks(fs_) == Cardinality({p \in DOMAIN fs_ : fs_[p].kind = "link"})

\* os.path.realpath (strict=False): walk rest from path, following links;
\* a missing component is kept as written.  fuel makes the recursion finite.
RECURSIVE _joinrealpath(_, _, _, _)
_joinrealpath(fs_, path, rest, fuel) ==
    IF rest = <<>> THEN path
    ELSE LET name == Head(rest)
             newpath == Append(path, name)
         IN  IF name = ".."
             THEN _joinrealpath(fs_, Parent(path), Tail(rest), fuel)
             ELSE IF newpath \in DOMAIN fs_ /\ fs_[newpath].kind = "link" /\ fuel > 0
             THEN _joinrealpath(fs_,
                      IF fs_[newpath].target.abs THEN <<>> ELSE path,
                      fs_[newpath].target.parts \o Tail(rest), fuel - 1)
             ELSE _joinrealpath(fs_, newpath, Tail(rest), fuel)

\* Path.resolve() of an absolute path.  The filesystems here hold no cycle
\* of links, so every component of the path is followed through at most
\* every link once and the fuel never runs out.
resolve(fs_, path) ==
    _joinrealpath(fs_, <<>>, path, (NumLinks(fs_) + 1) * (Len(path) + 1))

\* Path.exists() / is_dir() / is_file(): stat follows links.
exists(fs_, path) ==
    With(resolve(fs_, path), LAMBDA real : real = <<>> \/ real \in DOMAIN fs_)

is_dir(fs_, path) ==
    With(resolve(fs_, path), LAMBDA real :
        real = <<>> \/ (real \in DOMAIN fs_ /\ fs_[real].kind = "dir"))

is_file(fs_, path) ==
    With(resolve(fs_, path), LAMBDA real : real \in DOMAIN fs_ /\ fs_[real].kind = "file")

\* Path.read_text() of an existing file.
read_text(fs_, path) == With(resolve(fs_, path), LAMBDA real : fs_[real].text)

\* Path.mkdir(parents=True, exist_ok=True): [err, fs].
mkdir(fs_, path) ==
    With(resolve(fs_, path), LAMBDA real :
        IF \E p \in Prefixes(real) : p \in DOMAIN fs_ /\ fs_[p].kind # "dir"
        THEN [err |-> PsykerError("OSError", <<"FileExistsError">>, NoSpan), fs |-> fs_]
        ELSE [err |-> NoError,
              fs |-> [p \in (DOMAIN fs_) \cup Prefixes(real) |->
                         IF p \in DOMAIN fs_ THEN fs_[p] ELSE Dir]])

\* Path.touch(exist_ok=True).
touch(fs_, path) ==
    With(resolve(fs_, path), LAMBDA real :
        IF real \in DOMAIN fs_ \/ real = <<>>
        THEN [err |-> NoError, fs |-> fs_]
        ELSE IF ~is_dir(fs_, Parent(real))
        THEN [err |-> PsykerError("OSError", <<"NotADirectoryError">>, NoSpan), fs |-> fs_]
        ELSE [err |-> NoError,
              fs |-> [p \in (DOMAIN fs_) \cup {real} |->
                         IF p \in DOMAIN fs_ THEN fs_[p] ELSE File("")]])

(***************************************************************************)
(* sandbox.py.                                                             *)
(***************************************************************************)
root == <<"sb">>

workspace == Append(root, "workspace")

logs == Append(root, "logs")

tmp == Append(root, "tmp")

\* ensure_layout: mkdir of workspace, logs and tmp in turn; [err, fs].
ensure_layout(fs_) ==
    Then(mkdir(fs_, workspace), LAMBDA m1 :
    Then(mkdir(m1.fs, logs), LAMBDA m2 :
        mkdir(m2.fs, tmp)))

\* _assert_inside_root that checks containment only for a path that exists.
_assert_inside_root_existing_only(fs_, resolved) ==
    IF exists(fs_, resolved) /\ ~IsPrefix(resolve(fs_, root), resolve(fs_, resolved))
    THEN PsykerError("SandboxError", <<"Symlink target escapes sandbox root">>, NoSpan)
    ELSE NoError

\* _assert_inside_root(resolved): the error raised, or NoError.
_assert_inside_root(fs_, resolved) ==
    With(resolve(fs_, root), LAMBDA root_resolved :
        IF ~IsPrefix(root_resolved, resolved)
        THEN PsykerError("SandboxError", <<"Path is outside sandbox root">>, NoSpan)
        ELSE IF exists(fs_, resolved) /\ ~IsPrefix(root_resolved, resolve(fs_, resolved))
        THEN PsykerError("SandboxError", <<"Symlink target escapes sandbox root">>, NoSpan)
        ELSE NoError)

\* The body shared by resolve_under_root and resolve_in_workspace, which
\* differ in the directory a relative path is joined to: [err, val, fs].
resolve_from(fs_, base, candidate) ==
    With(ensure_layout(fs_), LAMBDA laid :
        IF Failed(laid) THEN [err |-> laid.err, val |-> <<>>, fs |-> laid.fs]
        ELSE With(IF candidate.abs THEN resolve(laid.fs, candidate.parts)
                  ELSE resolve(laid.fs, base \o candidate.parts), LAMBDA resolved :
             With(_assert_inside_root(laid.fs, resolved), LAMBDA outside :
                 IF outside.type # "" THEN [err |-> outside, val |-> <<>>, fs |-> laid.fs]
                 ELSE [err |-> NoError, val |-> resolved, fs |-> laid.fs])))

resolve_under_root(fs_, candidate) == resolve_from(fs_, root, candidate)

resolve_in_workspace(fs_, candidate) == resolve_from(fs_, workspace, candidate)

\* Sandbox.log: one line appended to the log file's lines.
LogLine(agent, worker, operation, status) ==
    [agent |-> agent, worker |-> worker, op |-> operation, status |-> status]

sandbox_log(lines, agent, worker, operation, status) ==
    Append(lines, LogLine(agent, worker, operation, status))

(***************************************************************************)
(* runtime.py: the pure parts of run_task.                                 *)
(***************************************************************************)
\* dict.get(key): the value, or None.
Get(dict, key) == IF key \in DOMAIN dict THEN dict[key] ELSE None

\* pool.extend([use.worker_name] * use.count) for each use, in order.
RECURSIVE Pool(_)
Pool(uses) ==
    IF uses = <<>> THEN <<>>
    ELSE Repeat(Head(uses).worker_name, Head(uses).count) \o Pool(Tail(uses))

\* _select_worker that reads the counter and never stores the next one.
_select_worker_no_advance(rr, agent_name, agent) ==
    IF Pool(agent.uses) = <<>>
    THEN [err |-> PsykerError("ReferenceError",
                      <<"Agent '", agent_name, "' has no workers configured.">>, NoSpan),
          selected_name |-> NONE, rr_index |-> rr]
    ELSE [err |-> NoError,
          selected_name |-> Pool(agent.uses)[1],
          rr_index |-> Put(rr, agent_name, 0)]

\* _select_worker that stores the counter before it looks at the pool.
_select_worker_stores_first(rr, agent_name, agent) ==
    LET pool == Pool(agent.uses)
        index == IF agent_name \in DOMAIN rr THEN rr[agent_name] ELSE 0
    IN  IF pool = <<>>
        THEN [err |-> PsykerError("ReferenceError",
                          <<"Agent '", agent_name, "' has no workers configured.">>, NoSpan),
              selected_name |-> NONE, rr_index |-> Put(rr, agent_name, index + 1)]
        ELSE [err |-> NoError,
              selected_name |-> pool[(index % Len(pool)) + 1],
              rr_index |-> Put(rr, agent_name, (index + 1) % Len(pool))]

\* _select_worker that stores the next index without reducing it.
_select_worker_unbounded(rr, agent_name, agent) ==
    LET pool == Pool(agent.uses)
        index == IF agent_name \in DOMAIN rr THEN rr[agent_name] ELSE 0
    IN  IF pool = <<>>
        THEN [err |-> PsykerError("ReferenceError",
                          <<"Agent '", agent_name, "' has no workers configured.">>, NoSpan),
              selected_name |-> NONE, rr_index |-> rr]
        ELSE [err |-> NoError,
              selected_name |-> pool[(index % Len(pool)) + 1],
              rr_index |-> Put(rr, agent_name, index + 1)]

\* _select_worker that moves the counter on by two positions.
_select_worker_skips(rr, agent_name, agent) ==
    LET pool == Pool(agent.uses)
        index == IF agent_name \in DOMAIN rr THEN rr[agent_name] ELSE 0
    IN  IF pool = <<>>
        THEN [err |-> PsykerError("ReferenceError",
                          <<"Agent '", agent_name, "' has no workers configured.">>, NoSpan),
              selected_name |-> NONE, rr_index |-> rr]
        ELSE [err |-> NoError,
              selected_name |-> pool[(index % Len(pool)) + 1],
              rr_index |-> Put(rr, agent_name, (index + 2) % Len(pool))]

\* _select_worker that keeps one counter for all agents.
_select_worker_shared(rr, agent_name, agent) ==
    LET pool == Pool(agent.uses)
        index == IF agent_name \in DOMAIN rr THEN rr[agent_name] ELSE 0
    IN  IF pool = <<>>
        THEN [err |-> PsykerError("ReferenceError",
                          <<"Agent '", agent_name, "' has no workers configured.">>, NoSpan),
              selected_name |-> NONE, rr_index |-> rr]
        ELSE [err |-> NoError,
              selected_name |-> pool[(index % Len(pool)) + 1],
              rr_index |-> [name \in DOMAIN Put(rr, agent_name, 0) |->
                               (index + 1) % Len(pool)]]

\* _select_worker up to the counter update: [err, selected_name, rr_index].
_select_worker(rr, agent_name, agent) ==
    LET pool == Pool(agent.uses)
        index == IF agent_name \in DOMAIN rr THEN rr[agent_name] ELSE 0
    IN  IF pool = <<>>
        THEN [err |-> PsykerError("ReferenceError",
                          <<"Agent '", agent_name, "' has no workers configured.">>, NoSpan),
              selected_name |-> NONE, rr_index |-> rr]
        ELSE [err |-> NoError,
              selected_name |-> pool[(index % Len(pool)) + 1],
              rr_index |-> Put(rr, agent_name, (index + 1) % Len(pool))]

\* _enforce_access that takes a task without an access block as unrestricted.
_enforce_access_missing_allows(task, agent_name, worker_name) ==
    IF task.access = None THEN NoError
    ELSE IF task.access.agents # <<>> /\ agent_name \notin Range(task.access.agents)
    THEN PsykerError("AccessError",
             <<"Agent '", agent_name, "' is not allowed to run task '", task.name, "'">>,
             NoSpan)
    ELSE IF task.access.workers # <<>> /\ worker_name \notin Range(task.access.workers)
    THEN PsykerError("AccessError",
             <<"Worker '", worker_name, "' is not allowed to execute task '", task.name, "'">>,
             NoSpan)
    ELSE NoError

\* _enforce_access that tests membership without the emptiness test, so that
\* an empty list admits nobody.
_enforce_access_empty_denies(task, agent_name, worker_name) ==
    IF task.access = None
    THEN PsykerError("AccessError",
             <<"Task '", task.name, "' has no @access block and defaults to deny-all">>,
             NoSpan)
    ELSE IF agent_name \notin Range(task.access.agents)
    THEN PsykerError("AccessError",
             <<"Agent '", agent_name, "' is not allowed to run task '", task.name, "'">>,
             NoSpan)
    ELSE IF worker_name \notin Range(task.access.workers)
    THEN PsykerError("AccessError",
             <<"Worker '", worker_name, "' is not allowed to execute task '", task.name, "'">>,
             NoSpan)
    ELSE NoError

\* _enforce_access: the AccessError raised, or NoError.
_enforce_access(task, agent_name, worker_name) ==
    IF task.access = None
    THEN PsykerError("AccessError",
             <<"Task '", task.name, "' has no @access block and defaults to deny-all">>,
             NoSpan)
    ELSE IF task.access.agents # <<>> /\ agent_name \notin Range(task.access.agents)
    THEN PsykerError("AccessError",
             <<"Agent '", agent_name, "' is not allowed to run task '", task.name, "'">>,
             NoSpan)
    ELSE IF task.access.workers # <<>> /\ worker_name \notin Range(task.access.workers)
    THEN PsykerError("AccessError",
             <<"Worker '", worker_name, "' is not allowed to execute task '", task.name, "'">>,
             NoSpan)
    ELSE NoError

\* _enforce_capability that only asks whether the worker is allowed anything.
_enforce_capability_any(worker, op) ==
    IF worker.allows = <<>>
    THEN PsykerError("PermissionError",
             <<"Worker '", worker.name, "' lacks required capability '", op, "'">>,
             NoSpan)
    ELSE NoError

\* _enforce_capability that counts only the allow entries with no argument.
_enforce_capability_unscoped(worker, op) ==
    LET allowed == {worker.allows[i].capability :
                       i \in {j \in 1..Len(worker.allows) : worker.allows[j].arg = NONE}}
    IN  IF op \notin allowed
        THEN PsykerError("PermissionError",
                 <<"Worker '", worker.name, "' lacks required capability '", op, "'">>,
                 NoSpan)
        ELSE NoError

\* _enforce_capability: the PermissionError raised, or NoError.
_enforce_capability(worker, op) ==
    LET allowed == {worker.allows[i].capability : i \in 1..Len(worker.allows)}
    IN  IF op \notin allowed
        THEN PsykerError("PermissionError",
                 <<"Worker '", worker.name, "' lacks required capability '", op, "'">>,
                 NoSpan)
        ELSE NoError

(***************************************************************************)
(* The string literals of the source files: what _dequote and Path() make  *)
(* of each.  A STRING token's value keeps its quotes.                      *)
(***************************************************************************)
Literals ==
    [q \in {"\"workspace/input.txt\"", "\"workspace/out.txt\"", "\"workspace/newdir\"",
            "\"workspace/link/passwd\"", "\"/etc/passwd\"", "\"workspace/run\"",
            "\"../out\"", "\"echo hi\"", "\"docs\""} |->
        CASE q = "\"workspace/input.txt\"" -> "workspace/input.txt"
          [] q = "\"workspace/out.txt\"" -> "workspace/out.txt"
          [] q = "\"workspace/newdir\"" -> "workspace/newdir"
          [] q = "\"workspace/link/passwd\"" -> "workspace/link/passwd"
          [] q = "\"/etc/passwd\"" -> "/etc/passwd"
          [] q = "\"workspace/run\"" -> "workspace/run"
          [] q = "\"../out\"" -> "../out"
          [] q = "\"echo hi\"" -> "echo hi"
          [] OTHER -> "docs"]

_dequote(value) == IF value \in DOMAIN Literals THEN Literals[value] ELSE value

\* pathlib.Path(value)
Path(value) ==
    CASE value = "workspace/input.txt" -> PathValue(FALSE, <<"workspace", "input.txt">>)
      [] value = "workspace/out.txt" -> PathValue(FALSE, <<"workspace", "out.txt">>)
      [] value = "workspace/newdir" -> PathValue(FALSE, <<"workspace", "newdir">>)
      [] value = "workspace/link/passwd" -> PathValue(FALSE, <<"workspace", "link", "passwd">>)
      [] value = "/etc/passwd" -> PathValue(TRUE, <<"etc", "passwd">>)
      [] value = "workspace/run" -> PathValue(FALSE, <<"workspace", "run">>)
      [] value = "../out" -> PathValue(FALSE, <<"..", "out">>)
      [] value = "../secret.txt" -> PathValue(FALSE, <<"..", "secret.txt">>)
      [] value = "workspace/link" -> PathValue(FALSE, <<"workspace", "link">>)
      [] OTHER -> PathValue(FALSE, <<value>>)

\* Path.suffix of an absolute path: the extension of its last component.
suffix(path) ==
    IF path = <<>> THEN ""
    ELSE IF path[Len(path)] \in {"input.txt", "out.txt", "secret.txt"} THEN ".txt"
    ELSE ""

(***************************************************************************)
(* A subprocess's outcome is the environment's: the launch fails (OSError) *)
(* or the process exits with a return code and its captured streams.       *)
(***************************************************************************)
ProcOutcomes ==
    { [launched |-> FALSE, returncode |-> 0, stdout |-> "", stderr |-> ""],
      [launched |-> TRUE, returncode |-> 1, stdout |-> "", stderr |-> "boom"],
      [launched |-> TRUE, returncode |-> 0, stdout |-> "hi", stderr |-> ""],
      [launched |-> TRUE, returncode |-> 0, stdout |-> "", stderr |-> "warn"] }

\* What one statement does: the error raised, the (out, err) returned, the
\* filesystem and log afterwards, and the subprocesses started.
Outcome(err, out, errout, fs_, lines, spawned) ==
    [err |-> err, out |-> out, errout |-> errout, fs |-> fs_, log |-> lines,
     spawned |-> spawned]

_run_process(fs_, lines, agent_name, worker, op, command, proc) ==
    With(IF Truthy(worker.cwd)
         THEN resolve_under_root(fs_, Path(_dequote(worker.cwd)))
         ELSE [err |-> NoError, val |-> workspace, fs |-> fs_], LAMBDA cwd :
        IF Failed(cwd) THEN Outcome(cwd.err, "", "", cwd.fs, lines, <<>>)
        ELSE With(mkdir(cwd.fs, cwd.val), LAMBDA made :
            IF Failed(made) THEN Outcome(made.err, "", "", made.fs, lines, <<>>)
            ELSE IF ~proc.launched
            THEN Outcome(PsykerError("ExecError",
                             <<"Failed to execute '", command[1], "'">>, NoSpan),
                         "", "", made.fs,
                         sandbox_log(lines, agent_name, worker.name, op, "error"), <<>>)
            ELSE IF proc.returncode # 0
            THEN Outcome(PsykerError("ExecError", <<op, " failed with exit code">>, NoSpan),
                         "", "", made.fs,
                         sandbox_log(lines, agent_name, worker.name, op, "error"),
                         <<[op |-> op, command |-> command, cwd |-> cwd.val]>>)
            ELSE Outcome(NoError, proc.stdout, proc.stderr, made.fs,
                         sandbox_log(lines, agent_name, worker.name, op, "ok"),
                         <<[op |-> op, command |-> command, cwd |-> cwd.val]>>)))

\* The fs.open branch of _run_statement.
_run_fs_open(fs_, lines, agent_name, worker, op, value) ==
    With(resolve_under_root(fs_, Path(value)), LAMBDA target :
        IF Failed(target) THEN Outcome(target.err, "", "", target.fs, lines, <<>>)
        ELSE IF ~exists(target.fs, target.val) \/ ~is_file(target.fs, target.val)
        THEN Outcome(PsykerError("ExecError", <<"File not found for fs.open">>, NoSpan),
                     "", "", target.fs,
                     sandbox_log(lines, agent_name, worker.name, op, "error"), <<>>)
        ELSE Outcome(NoError, read_text(target.fs, target.val), "", target.fs,
                     sandbox_log(lines, agent_name, worker.name, op, "ok"), <<>>))

\* The fs.create branch of _run_statement.
_run_fs_create(fs_, lines, agent_name, worker, op, value) ==
    With(resolve_under_root(fs_, Path(value)), LAMBDA target :
        IF Failed(target) THEN Outcome(target.err, "", "", target.fs, lines, <<>>)
        ELSE With(mkdir(target.fs, Parent(target.val)), LAMBDA parents :
            IF Failed(parents) THEN Outcome(parents.err, "", "", parents.fs, lines, <<>>)
            ELSE With(IF suffix(target.val) # ""
                      THEN touch(parents.fs, target.val)
                      ELSE mkdir(parents.fs, target.val), LAMBDA created :
                IF Failed(created) THEN Outcome(created.err, "", "", created.fs, lines, <<>>)
                ELSE Outcome(NoError, "", "", created.fs,
                             sandbox_log(lines, agent_name, worker.name, op, "ok"), <<>>))))

_run_statement(fs_, lines, agent_name, worker, op, arg, proc) ==
    IF op = "fs.open"
    THEN _run_fs_open(fs_, lines, agent_name, worker, op, _dequote(arg))
    ELSE IF op = "fs.create"
    THEN _run_fs_create(fs_, lines, agent_name, worker, op, _dequote(arg))
    ELSE IF op = "exec.ps"
    THEN _run_process(fs_, lines, agent_name, worker, op,
                      <<"powershell", "-NoProfile", "-Command", _dequote(arg)>>, proc)
    ELSE IF op = "exec.cmd"
    THEN _run_process(fs_, lines, agent_name, worker, op, <<"cmd", "/c", _dequote(arg)>>, proc)
    ELSE Outcome(PsykerError("ExecError", <<"Unsupported operation '", op, "'">>, NoSpan),
                 "", "", fs_, lines, <<>>)

ExecutionResult(status_code, stdout, stderr, worker_, agent, task) ==
    [status_code |-> status_code, stdout |-> stdout, stderr |-> stderr,
     worker |-> worker_, agent |-> agent, task |-> task]

\* "".join(parts)
RECURSIVE Join(_)
Join(parts) == IF parts = <<>> THEN "" ELSE Head(parts) \o Join(Tail(parts))

(***************************************************************************)
(* The state.                                                              *)
(*   workers, agents, tasks, rr_index   RuntimeState's registries and      *)
(*                                      round-robin counters (_rr_index)   *)
(*   cancel_check, cancel_requested     the registered cancel predicate    *)
(*                                      and PsykerCLI._cancel_requested    *)
(*   fs                                 the filesystem                     *)
(*   pc, call, local                    the call in flight: its position,  *)
(*                                      its arguments, its local variables *)
(*   raised, result                     what the call raised / returned    *)
(* History of the call in flight, for the properties:                      *)
(*   log          the lines it has appended to logs/psyker.log             *)
(*   dispatched   the statement indices handed to _run_statement           *)
(*   executed     the statements whose _run_statement returned: the index  *)
(*                and the (out, err) it returned                           *)
(*   spawned      the subprocesses started                                 *)
(*   polled       the statement indices at which the cancel predicate was  *)
(*                called                                                   *)
(*   nth          how many earlier calls of this agent reached selection   *)
(*   pre          the registries, counters and filesystem at its start     *)
(* and, per agent, hist: the number k of calls that reached selection      *)
(* since the counter was fresh, whether the agent was reloaded since, and  *)
(* picks, the workers selected since the agent was last loaded (the last   *)
(* len(pool) of them).                                                     *)
(***************************************************************************)
VARIABLES workers, agents, tasks, rr_index, cancel_check, cancel_requested,
          fs, pc, call, local, raised, result,
          log, dispatched, executed, spawned, polled, nth, pre, hist,
          gui, frame, seen

regVars == <<workers, agents, tasks>>

callVars == <<pc, call, local, raised, result, log, dispatched, executed, spawned,
              polled, nth, pre>>

cancelVars == <<cancel_check, cancel_requested>>

\* The embedded terminal and its worker thread, the frame of a load_file
\* call that is followed statement by statement, and what an observer on
\* another thread has read.
guiVars == <<gui, frame, seen>>

vars == <<workers, agents, tasks, rr_index, cancel_check, cancel_requested,
          fs, pc, call, local, raised, result,
          log, dispatched, executed, spawned, polled, nth, pre, hist,
          gui, frame, seen>>

AgentNames == {"alpha", "beta", "gamma"}

Reg == [workers |-> workers, agents |-> agents, tasks |-> tasks]

NoCall == [op |-> "", path |-> "", text |-> <<>>, agent |-> "", task |-> "",
           arg |-> PathValue(FALSE, <<>>)]

NoLocal == [agent |-> None, task |-> None, worker |-> None, index |-> 0,
            stdout_parts |-> <<>>, stderr_parts |-> <<>>]

Snapshot == [workers |-> workers, agents |-> agents, tasks |-> tasks,
             rr_index |-> rr_index, fs |-> fs]

NoHist == [fresh |-> TRUE, k |-> 0, picks |-> <<>>]

\* The embedded terminal as constructed: no command in flight, nothing queued
\* for the worker thread (inbox) or for the GUI thread (outbox).  code is
\* what execute_command last returned (-1: not called yet), typed the line it
\* was given, asked whether request_cancel came while _run was executing.
NoGui == [in_flight |-> FALSE, pending_line |-> None, typed |-> None, code |-> -1,
          running |-> FALSE, stage |-> "idle", line |-> None,
          inbox |-> <<>>, outbox |-> <<>>, asked |-> FALSE]

\* No load_file call is being followed statement by statement.
NoFrame == [file |-> None, document |-> None, workers_copy |-> EmptyDict,
            agents_copy |-> EmptyDict, tasks_copy |-> EmptyDict, at |-> "", i |-> 0]

\* The observer has read nothing.
NoSeen == [agents |-> None, workers |-> None, tasks |-> None, during |-> FALSE]

\* The last n elements of a sequence.
LastN(seq, n) == IF Len(seq) <= n THEN seq ELSE SubSeq(seq, Len(seq) - n + 1, Len(seq))

\* The transient variables when no call is in flight.
Idle ==
    /\ pc = "idle"
    /\ call = NoCall
    /\ local = NoLocal
    /\ raised = NoError
    /\ result = None
    /\ log = <<>>
    /\ dispatched = <<>>
    /\ executed = <<>>
    /\ spawned = <<>>
    /\ polled = <<>>
    /\ nth = -1
    /\ pre = None

\* RuntimeState(sandbox=...) as constructed: empty registries and counters.
InitRuntime ==
    /\ workers = EmptyDict
    /\ agents = EmptyDict
    /\ tasks = EmptyDict
    /\ rr_index = EmptyDict
    /\ cancel_check = NONE
    /\ cancel_requested = FALSE
    /\ hist = [a \in AgentNames |-> NoHist]
    /\ gui = NoGui
    /\ frame = NoFrame
    /\ seen = NoSeen
    /\ Idle

(***************************************************************************)
(* RuntimeState.load_file(path).                                           *)
(***************************************************************************)
\* load_file that drops the counter of an agent it registers.
LoadFile_resets_counter(file) ==
    /\ pc = "idle"
    /\ LET r == load_file(Reg, file)
           reloaded == /\ r.err.type = ""
                       /\ r.document.doc = "AgentDocument"
                       /\ r.document.agent.name \in DOMAIN rr_index
                       /\ r.document.agent.name \in AgentNames
       IN  /\ workers' = r.reg.workers
           /\ agents' = r.reg.agents
           /\ tasks' = r.reg.tasks
           /\ raised' = r.err
           /\ result' = r.document
           /\ pc' = IF r.err.type # "" THEN "error" ELSE "done"
           /\ hist' = IF reloaded
                      THEN [hist EXCEPT ![r.document.agent.name] =
                                         [fresh |-> FALSE, k |-> 0, picks |-> <<>>]]
                      ELSE hist
           /\ rr_index' = IF reloaded
                          THEN [rr_index EXCEPT ![r.document.agent.name] = 0]
                          ELSE rr_index
    /\ call' = [NoCall EXCEPT !.op = "load_file", !.path = file.path, !.text = file.text]
    /\ pre' = Snapshot
    /\ UNCHANGED <<guiVars, cancelVars, fs, local, log, dispatched, executed, spawned,
                   polled, nth>>

\* load_file(path) as a call: its result, error and registries.
LoadFile(file) ==
    /\ pc = "idle"
    /\ LET r == load_file(Reg, file)
           reloaded == /\ r.err.type = ""
                       /\ r.document.doc = "AgentDocument"
                       /\ r.document.agent.name \in DOMAIN rr_index
                       /\ r.document.agent.name \in AgentNames
       IN  /\ workers' = r.reg.workers
           /\ agents' = r.reg.agents
           /\ tasks' = r.reg.tasks
           /\ raised' = r.err
           /\ result' = r.document
           /\ pc' = IF r.err.type # "" THEN "error" ELSE "done"
           /\ hist' = IF reloaded
                      THEN [hist EXCEPT ![r.document.agent.name] =
                                         [fresh |-> FALSE, k |-> 0, picks |-> <<>>]]
                      ELSE hist
    /\ call' = [NoCall EXCEPT !.op = "load_file", !.path = file.path, !.text = file.text]
    /\ pre' = Snapshot
    /\ UNCHANGED <<guiVars, rr_index, cancelVars, fs, local, log, dispatched, executed, spawned,
                   polled, nth>>

(***************************************************************************)
(* RuntimeState.run_task(agent_name, task_name), step by step.             *)
(***************************************************************************)
\* Lines 60-65: resolve the agent and the task.
RunTaskCall(agent_name, task_name) ==
    /\ pc = "idle"
    /\ call' = [NoCall EXCEPT !.op = "run_task", !.agent = agent_name, !.task = task_name]
    /\ pre' = Snapshot
    /\ LET agent == Get(agents, agent_name)
           task == Get(tasks, task_name)
       IN  IF agent = None
           THEN /\ raised' = PsykerError("ReferenceError",
                                 <<"Unknown agent '", agent_name, "'">>, NoSpan)
                /\ pc' = "error"
                /\ local' = local
           ELSE IF task = None
           THEN /\ raised' = PsykerError("ReferenceError",
                                 <<"Unknown task '", task_name, "'">>, NoSpan)
                /\ pc' = "error"
                /\ local' = local
           ELSE /\ raised' = raised
                /\ pc' = "selecting-worker"
                /\ local' = [local EXCEPT !.agent = agent, !.task = task]
    /\ UNCHANGED <<guiVars, regVars, rr_index, cancelVars, fs, result, log, dispatched, executed,
                   spawned, polled, nth, hist>>

\* Line 67: worker = self._select_worker(agent_name, agent).
SelectWorker ==
    /\ pc = "selecting-worker"
    /\ LET sel == _select_worker(rr_index, call.agent, local.agent)
           worker == Get(workers, sel.selected_name)
           h == hist[call.agent]
       IN  /\ rr_index' = sel.rr_index
           /\ IF sel.err.type # ""
              THEN /\ raised' = sel.err
                   /\ pc' = "error"
                   /\ UNCHANGED <<local, nth, hist>>
              ELSE /\ nth' = IF h.fresh THEN h.k ELSE -1
                   /\ hist' = [hist EXCEPT ![call.agent] =
                                 [fresh |-> h.fresh /\ h.k + 1 < MaxCalls,
                                  k |-> IF h.fresh /\ h.k + 1 < MaxCalls THEN h.k + 1 ELSE 0,
                                  picks |-> LastN(Append(h.picks, sel.selected_name),
                                                  Len(Pool(local.agent.uses)))]]
                   /\ IF worker = None
                      THEN /\ raised' = PsykerError("ReferenceError",
                                            <<"Worker '", sel.selected_name,
                                              "' referenced by agent '", call.agent,
                                              "' is not loaded">>, NoSpan)
                           /\ pc' = "error"
                           /\ local' = local
                      ELSE /\ raised' = raised
                           /\ pc' = "checking-access"
                           /\ local' = [local EXCEPT !.worker = worker]
    /\ UNCHANGED <<guiVars, regVars, cancelVars, fs, call, result, log, dispatched, executed,
                   spawned, polled, pre>>

\* Line 68: self._enforce_access(task, agent_name, worker.name).
EnforceAccess ==
    /\ pc = "checking-access"
    /\ LET denied == _enforce_access(local.task, call.agent, local.worker.name)
       IN  IF denied.type # ""
           THEN /\ raised' = denied
                /\ pc' = "error"
                /\ local' = local
           ELSE /\ raised' = raised
                /\ pc' = "executing-statements"
                /\ local' = [local EXCEPT !.index = 1]
    /\ UNCHANGED <<guiVars, regVars, rr_index, cancelVars, fs, call, result, log, dispatched,
                   executed, spawned, polled, nth, pre, hist>>

\* The poll that never finds the task cancelled.
check_cancelled_never(check, requested) == NoError

\* The poll of the cancel predicate registered with set_cancel_check, if one
\* is: the ExecError raised when it returns true, or NoError.
check_cancelled(check, requested) ==
    IF check # NONE /\ requested
    THEN PsykerError("ExecError", <<"task cancelled by user">>, NoSpan)
    ELSE NoError

\* The loop turn that goes on to the next statement when one raises.
RunStatementSkipping(proc) ==
    /\ pc = "executing-statements"
    /\ local.index <= Len(local.task.statements)
    /\ LET stmt == local.task.statements[local.index]
           lacking == _enforce_capability(local.worker, stmt.op)
           out == _run_statement(fs, log, call.agent, local.worker, stmt.op, stmt.arg, proc)
       IN  IF lacking.type # ""
           THEN /\ local' = [local EXCEPT !.index = @ + 1]
                /\ UNCHANGED <<fs, log, dispatched, executed, spawned>>
           ELSE /\ dispatched' = Append(dispatched, local.index)
                /\ fs' = out.fs
                /\ log' = out.log
                /\ spawned' = spawned \o out.spawned
                /\ executed' = IF out.err.type # "" THEN executed
                               ELSE Append(executed, [index |-> local.index, out |-> out.out,
                                                      err |-> out.errout])
                /\ local' = [local EXCEPT
                       !.index = @ + 1,
                       !.stdout_parts = IF out.out # "" THEN Append(@, out.out) ELSE @,
                       !.stderr_parts = IF out.errout # "" THEN Append(@, out.errout) ELSE @]
    /\ UNCHANGED <<guiVars, regVars, rr_index, cancelVars, pc, call, raised, result, polled, nth,
                   pre, hist>>

\* Lines 72-78: one turn of the loop over task.statements; proc is the
\* outcome of the subprocess, should the statement start one.
RunStatement(proc) ==
    /\ pc = "executing-statements"
    /\ local.index <= Len(local.task.statements)
    /\ LET stmt == local.task.statements[local.index]
           lacking == _enforce_capability(local.worker, stmt.op)
           poll == lacking.type = "" /\ cancel_check # NONE
           cancelled == check_cancelled(cancel_check, cancel_requested)
           out == _run_statement(fs, log, call.agent, local.worker, stmt.op, stmt.arg, proc)
       IN  /\ polled' = IF poll THEN Append(polled, local.index) ELSE polled
           /\ IF lacking.type # ""
              THEN /\ raised' = lacking
                   /\ pc' = "error"
                   /\ UNCHANGED <<fs, local, log, dispatched, executed, spawned>>
              ELSE IF cancelled.type # ""
              THEN /\ raised' = cancelled
                   /\ pc' = "error"
                   /\ UNCHANGED <<fs, local, log, dispatched, executed, spawned>>
              ELSE /\ dispatched' = Append(dispatched, local.index)
                   /\ fs' = out.fs
                   /\ log' = out.log
                   /\ spawned' = spawned \o out.spawned
                   /\ IF out.err.type # ""
                      THEN /\ raised' = out.err
                           /\ pc' = "error"
                           /\ UNCHANGED <<local, executed>>
                      ELSE /\ raised' = raised
                           /\ pc' = pc
                           /\ executed' = Append(executed, [index |-> local.index, out |-> out.out,
                                                         err |-> out.errout])
                           /\ local' = [local EXCEPT
                                  !.index = @ + 1,
                                  !.stdout_parts = IF out.out # "" THEN Append(@, out.out) ELSE @,
                                  !.stderr_parts = IF out.errout # "" THEN Append(@, out.errout) ELSE @]
    /\ UNCHANGED <<guiVars, regVars, rr_index, cancelVars, call, result, nth, pre, hist>>

\* The return that keeps the output of the last statement only.
FinishLastOutput ==
    /\ pc = "executing-statements"
    /\ local.index > Len(local.task.statements)
    /\ result' = ExecutionResult(0,
                     IF local.stdout_parts = <<>> THEN ""
                     ELSE local.stdout_parts[Len(local.stdout_parts)],
                     IF local.stderr_parts = <<>> THEN ""
                     ELSE local.stderr_parts[Len(local.stderr_parts)],
                     local.worker.name, call.agent, call.task)
    /\ pc' = "done"
    /\ UNCHANGED <<guiVars, regVars, rr_index, cancelVars, fs, call, local, raised, log, dispatched,
                   executed, spawned, polled, nth, pre, hist>>

\* The return that drops the task it ran from the tasks registry.
FinishConsumingTask ==
    /\ pc = "executing-statements"
    /\ local.index > Len(local.task.statements)
    /\ result' = ExecutionResult(0, Join(local.stdout_parts), Join(local.stderr_parts),
                                 local.worker.name, call.agent, call.task)
    /\ pc' = "done"
    /\ tasks' = [name \in DOMAIN tasks \ {call.task} |-> tasks[name]]
    /\ UNCHANGED <<guiVars, workers, agents, rr_index, cancelVars, fs, call, local, raised,
                   log, dispatched, executed, spawned, polled, nth, pre, hist>>

\* Lines 80-87: the loop is over; return the ExecutionResult.
Finish ==
    /\ pc = "executing-statements"
    /\ local.index > Len(local.task.statements)
    /\ result' = ExecutionResult(0, Join(local.stdout_parts), Join(local.stderr_parts),
                                 local.worker.name, call.agent, call.task)
    /\ pc' = "done"
    /\ UNCHANGED <<guiVars, regVars, rr_index, cancelVars, fs, call, local, raised, log, dispatched,
                   executed, spawned, polled, nth, pre, hist>>

\* The call is over: its frame and what it returned or raised are gone.
Return ==
    /\ pc \in {"done", "error"}
    /\ pc' = "idle"
    /\ call' = NoCall
    /\ local' = NoLocal
    /\ raised' = NoError
    /\ result' = None
    /\ log' = <<>>
    /\ dispatched' = <<>>
    /\ executed' = <<>>
    /\ spawned' = <<>>
    /\ polled' = <<>>
    /\ nth' = -1
    /\ pre' = None
    /\ UNCHANGED <<guiVars, regVars, rr_index, cancelVars, fs, hist>>

(***************************************************************************)
(* cli.py: the collaborator that registers the cancel predicate.           *)
(* RuntimeState.set_cancel_check stores the predicate it is given.         *)
(***************************************************************************)
set_cancel_check(predicate) == cancel_check' = predicate

\* PsykerCLI.__init__
NewCLI ==
    /\ pc = "idle"
    /\ cancel_check = NONE
    /\ cancel_requested' = FALSE
    /\ set_cancel_check("is_cancel_requested")
    /\ UNCHANGED <<guiVars, regVars, rr_index, fs, callVars, hist>>

\* PsykerCLI.request_cancel, from any thread, at any time.
request_cancel ==
    /\ cancel_check # NONE
    /\ ~cancel_requested
    /\ cancel_requested' = TRUE
    /\ UNCHANGED <<guiVars, regVars, rr_index, cancel_check, fs, callVars, hist>>

\* PsykerCLI.clear_cancel, at the start of a command.
clear_cancel ==
    /\ cancel_check # NONE
    /\ pc = "idle"
    /\ cancel_requested
    /\ cancel_requested' = FALSE
    /\ UNCHANGED <<guiVars, regVars, rr_index, cancel_check, fs, callVars, hist>>

(***************************************************************************)
(* Source texts.  A line of text is given by its lexemes in order; each    *)
(* starts one column after the blank that follows the one before.          *)
(***************************************************************************)
_SINGLE_DIALECT_WORDS ==
    {"task", "agent", "worker", "allow", "use", "count", "sandbox", "cwd", "agents", "workers"}

_DOTTED_KEYWORDS == {"fs.open", "fs.create", "exec.ps", "exec.cmd"}

\* The kind the scanner gives a word.
W(word) ==
    <<IF word \in _SINGLE_DIALECT_WORDS \cup _DOTTED_KEYWORDS THEN "KEYWORD" ELSE "IDENT",
      word>>

S(symbol) == <<symbol, symbol>>

N(digits) == <<"INT", digits>>

Q(string) == <<"STRING", string>>

P(path) == <<"PATH", path>>

At == <<"AT_ACCESS", "@access">>

Hash(text) == <<"COMMENT", text>>

RECURSIVE Column(_, _)
Column(items, i) == IF i = 1 THEN 1 ELSE Column(items, i - 1) + Len(items[i - 1][2]) + 1

TextLine(line, items) ==
    [i \in 1..Len(items) |-> Token(items[i][1], items[i][2], line, Column(items, i))]

RECURSIVE TextLines(_, _)
TextLines(first, lines) ==
    IF lines = <<>> THEN <<>>
    ELSE TextLine(first, Head(lines)) \o TextLines(first + 1, Tail(lines))

SourceFile(path, suffix_, lines) ==
    [path |-> path, suffix |-> suffix_, text |-> TextLines(1, lines)]

\* agent <name> { use worker <w> count = <n>; ... }, one clause a line.
AgentFile(path, name, clauses) ==
    SourceFile(path, ".psya",
        <<<<W("agent"), W(name), S("{")>>>>
        \o [i \in 1..Len(clauses) |->
               <<W("use"), W("worker"), W(clauses[i][1]), W("count"), S("="),
                 N(clauses[i][2]), S(";")>>]
        \o <<<<S("}")>>>>)

worker_basic ==
    SourceFile("worker_basic.psyw", ".psyw",
        << <<W("worker"), W("w1"), S("{")>>,
           <<W("allow"), W("fs.open"), S(";")>>,
           <<S("}")>> >>)

worker_full ==
    SourceFile("worker_full.psyw", ".PSYW",
        << <<Hash("# build worker")>>,
           <<W("worker"), W("w2"), S("{")>>,
           <<W("cwd"), Q("\"workspace/run\""), S(";")>>,
           <<W("allow"), W("fs.open"), Q("\"docs\""), S(";")>>,
           <<W("allow"), W("fs.create"), S(";")>>,
           <<W("allow"), W("exec.ps"), S(";")>>,
           <<S("}")>> >>)

agent_basic == AgentFile("agent_basic.psya", "alpha", << <<"w1", "1">> >>)

agent_two_workers ==
    AgentFile("agent_two_workers.psya", "alpha", << <<"w1", "2">>, <<"w2", "1">> >>)

agent_beta == AgentFile("agent_beta.psya", "beta", << <<"w2", "01">> >>)

\* An agent with no use clause.
agent_idle == AgentFile("agent_idle.psya", "gamma", <<>>)

task_basic ==
    SourceFile("task_basic.psy", ".psy",
        << <<At, S("{"), W("agents"), S(":"), S("["), W("alpha"), S("]"), S("}")>>,
           <<W("task"), W("hello"), S("{")>>,
           <<W("fs.open"), Q("\"workspace/input.txt\""), S(";")>>,
           <<S("}")>> >>)

task_suite ==
    SourceFile("task_suite.psy", ".psy",
        << <<W("task"), W("noaccess"), S("{")>>,
           <<W("fs.open"), Q("\"workspace/input.txt\""), S(";")>>,
           <<S("}")>>,
           <<At, S("{"), W("agents"), S(":"), S("["), W("alpha"), S("]"), S(","),
             W("workers"), S(":"), S("["), W("w2"), S("]"), S("}")>>,
           <<W("task"), W("build"), S("{")>>,
           <<W("fs.create"), Q("\"workspace/out.txt\""), S(";")>>,
           <<W("exec.ps"), Q("\"echo hi\""), S(";")>>,
           <<W("fs.open"), Q("\"workspace/input.txt\""), S(";")>>,
           <<S("}")>>,
           <<At, S("{"), W("workers"), S(":"), S("["), W("w1"), S(","), W("w2"), S("]"), S("}")>>,
           <<W("task"), W("multi"), S("{")>>,
           <<W("fs.open"), Q("\"workspace/input.txt\""), S(";")>>,
           <<W("exec.cmd"), Q("\"echo hi\""), S(";")>>,
           <<W("fs.create"), Q("\"workspace/newdir\""), S(";")>>,
           <<S("}")>>,
           <<At, S("{"), S("}")>>,
           <<W("task"), W("escape"), S("{")>>,
           <<W("fs.open"), P("../secret.txt"), S(";")>>,
           <<S("}")>>,
           <<At, S("{"), S("}")>>,
           <<W("task"), W("leak"), S("{")>>,
           <<W("fs.open"), Q("\"workspace/link/passwd\""), S(";")>>,
           <<S("}")>> >>)

\* Files whose load fails before validation.
task_missing_semicolon ==
    SourceFile("task_missing_semicolon.psy", ".psy",
        << <<W("task"), W("broken"), S("{")>>,
           <<W("fs.open"), Q("\"workspace/input.txt\"")>>,
           <<S("}")>> >>)

task_with_worker_def ==
    SourceFile("task_with_worker_def.psy", ".psy",
        << <<At, S("{"), S("}")>>,
           <<W("task"), W("fine"), S("{"), S("}")>>,
           <<W("worker"), W("w1"), S("{")>>,
           <<W("allow"), W("fs.open"), S(";")>>,
           <<S("}")>> >>)

bad_character ==
    SourceFile("bad_character.psyw", ".psyw",
        << <<W("worker"), W("w1"), S("{")>>,
           <<W("allow"), <<"BAD", "$">>, S(";")>>,
           <<S("}")>> >>)

notes_txt ==
    SourceFile("notes.txt", ".txt",
        << <<W("worker"), W("w1"), S("{")>>,
           <<W("allow"), W("fs.create"), S(";")>>,
           <<S("}")>> >>)

(***************************************************************************)
(* The filesystem at the start: the sandbox laid out (ensure_layout), an   *)
(* input file in the workspace, a symlink in the workspace that points out *)
(* of the sandbox, and a directory outside.                                *)
(***************************************************************************)
StartFs ==
    LET paths == { <<"sb">>, <<"sb", "workspace">>, <<"sb", "logs">>, <<"sb", "tmp">>,
                   <<"sb", "workspace", "input.txt">>, <<"sb", "workspace", "link">>,
                   <<"etc">>, <<"etc", "passwd">> }
    IN  [p \in paths |->
            CASE p = <<"sb", "workspace", "input.txt">> -> File("hello")
              [] p = <<"sb", "workspace", "link">> -> Link(PathValue(TRUE, <<"etc">>))
              [] p = <<"etc", "passwd">> -> File("root")
              [] OTHER -> Dir]

Init ==
    /\ InitRuntime
    /\ fs = StartFs

\* The files, agents and tasks the calls are made with.
Files ==
    {worker_basic, worker_full, agent_basic, agent_two_workers, agent_beta, agent_idle,
     task_basic, task_suite, task_missing_semicolon, task_with_worker_def,
     bad_character, notes_txt}

CallAgents == {"alpha", "beta", "gamma", "ghost"}

CallTasks == {"hello", "noaccess", "build", "multi", "escape", "leak", "nothing"}

Next ==
    \/ \E file \in Files : LoadFile(file)
    \/ \E a \in CallAgents, t \in CallTasks : RunTaskCall(a, t)
    \/ SelectWorker
    \/ EnforceAccess
    \/ \E proc \in ProcOutcomes : RunStatement(proc)
    \/ Finish
    \/ Return

Spec == Init /\ [][Next]_vars

(***************************************************************************)
(* Loading: the files above and every agent file of at most MaxUses use    *)
(* clauses, each naming w1 (defined by worker_basic) or w9 (defined by no  *)
(* file) with a count from 0 to MaxCount.                                  *)
(***************************************************************************)
UseClauses == {<<w, Digit[n]>> : w \in {"w1", "w9"}, n \in 0..MaxCount}

UseLists == SeqsUpTo(UseClauses, MaxUses)

AgentSource(clauses) == AgentFile("agent_uses.psya", "alpha", clauses)

LoadFiles ==
    {worker_basic, worker_full, agent_beta, task_basic, task_suite,
     task_missing_semicolon, task_with_worker_def, bad_character, notes_txt}
    \cup {AgentSource(clauses) : clauses \in UseLists}

NextLoad ==
    \/ \E file \in LoadFiles : LoadFile(file)
    \/ Return

SpecLoad == Init /\ [][NextLoad]_vars

\* C1: when a load_file call raises (lexing, parsing, unsupported suffix or
\* validation), the workers, agents and tasks registries are those of before
\* the call: nothing is added, removed or replaced.
C1_FailedLoadLeavesRegistries ==
    (call.op = "load_file" /\ pc = "error") =>
        /\ raised.type \in {"SyntaxError", "DialectError", "ReferenceError"}
        /\ workers = pre.workers
        /\ agents = pre.agents
        /\ tasks = pre.tasks

\* A validation failure on registries that already hold a worker, an agent
\* of the same name and tasks.
C1_Witness ==
    /\ call.op = "load_file"
    /\ pc = "error"
    /\ raised.type = "ReferenceError"
    /\ "w1" \in DOMAIN workers
    /\ "alpha" \in DOMAIN agents
    /\ tasks # EmptyDict

\* The use clauses of the agent file being loaded that break a rule: the
\* worker is not in the registry as it was at load time, or the count is 0.
Offending(clauses) ==
    {i \in 1..Len(clauses) : clauses[i][1] \notin DOMAIN pre.workers \/ clauses[i][2] = "0"}

FirstOffending(clauses) ==
    CHOOSE i \in Offending(clauses) : \A j \in Offending(clauses) : i <= j

\* C10: loading an agent file succeeds only if every use clause names a
\* worker that is in the workers registry at load time and has a count of at
\* least 1; otherwise it raises ReferenceError for the first offending clause
\* in declaration order, about the unknown worker if the clause breaks both
\* rules, with the line and column of that clause.
C10_AgentUsesValidated ==
    \A clauses \in UseLists :
        (call.op = "load_file" /\ call.text = AgentSource(clauses).text
            /\ pc \in {"done", "error"}) =>
            IF Offending(clauses) = {}
            THEN /\ pc = "done"
                 /\ Len(agents["alpha"].uses) = Len(clauses)
            ELSE /\ pc = "error"
                 /\ raised.type = "ReferenceError"
                 /\ raised.span = [line |-> FirstOffending(clauses) + 1, column |-> 12]
                 /\ raised.message =
                        IF clauses[FirstOffending(clauses)][1] \notin DOMAIN pre.workers
                        THEN <<"Agent '", "alpha", "' references unknown worker '",
                               clauses[FirstOffending(clauses)][1], "'">>
                        ELSE <<"Agent '", "alpha", "' has invalid worker count">>

\* The first clause is in order and the second breaks both rules.
C10_Witness ==
    /\ call.op = "load_file"
    /\ call.text = AgentSource(<< <<"w1", "2">>, <<"w9", "0">> >>).text
    /\ pc = "error"
    /\ "w1" \in DOMAIN pre.workers
    /\ raised.span = [line |-> 3, column |-> 12]

(***************************************************************************)
(* run_task: what the properties speak of.                                 *)
(***************************************************************************)
\* A run_task call whose agent and task were found.
Running == call.op = "run_task" /\ local.task # None

\* A run_task call for which a worker has been selected.
Selected == Running /\ local.worker # None

Allowed(worker) == {worker.allows[i].capability : i \in 1..Len(worker.allows)}

Ended == pc \in {"done", "error"}

\* C2 as stated: with a loaded agent and a loaded task that has no @access
\* block, run_task raises AccessError and dispatches no statement.
C2_AsStated ==
    (Running /\ local.task.access = None /\ Ended) =>
        /\ pc = "error"
        /\ raised.type = "AccessError"
        /\ dispatched = <<>>

\* C2, amended: with a loaded agent and a loaded task that has no @access
\* block, run_task dispatches no statement and ends with an error, which is
\* AccessError whenever a worker was selected for the call; an agent with an
\* empty pool ends in the ReferenceError of worker selection.
C2_NoAccessBlockNeverRuns ==
    (Running /\ local.task.access = None) =>
        /\ dispatched = <<>>
        /\ executed = <<>>
        /\ pc # "done"
        /\ pc # "executing-statements"
        /\ Ended =>
              /\ pc = "error"
              /\ raised.type = IF Pool(local.agent.uses) # <<>>
                               THEN "AccessError" ELSE "ReferenceError"

\* The worker selected holds the capability of the task's statement.
C2_Witness ==
    /\ Selected
    /\ local.task.access = None
    /\ pc = "error"
    /\ raised.type = "AccessError"
    /\ local.task.statements[1].op \in Allowed(local.worker)

\* The two axes of the access check, for the worker selected.
AgentAxis == local.task.access.agents = <<>> \/ call.agent \in Range(local.task.access.agents)

WorkerAxis ==
    local.task.access.workers = <<>> \/ local.worker.name \in Range(local.task.access.workers)

AccessPasses == local.task.access # None /\ AgentAxis /\ WorkerAxis

DispatchedExec ==
    {i \in Range(dispatched) : local.task.statements[i].op \in {"exec.ps", "exec.cmd"}}

\* C4: a statement is dispatched only if the selected worker's allow set
\* holds its operation; at the first statement whose operation is not
\* granted the call raises PermissionError, that statement is not dispatched
\* (no subprocess is started for it) and no later statement is.
C4_CapabilityBeforeDispatch ==
    (Selected /\ local.index >= 1) =>
        /\ \A i \in Range(dispatched) : local.task.statements[i].op \in Allowed(local.worker)
        /\ Len(spawned) <= Cardinality(DispatchedExec)
        /\ \A i \in 1..Len(local.task.statements) :
              (/\ local.task.statements[i].op \notin Allowed(local.worker)
               /\ \A j \in 1..(i - 1) : local.task.statements[j].op \in Allowed(local.worker)) =>
                  /\ \A d \in Range(dispatched) : d < i
                  /\ local.index <= i
                  /\ pc # "done"
                  /\ (pc = "error" /\ local.index = i) => raised.type = "PermissionError"

\* The second statement starts a subprocess and is not granted to the worker.
C4_Witness ==
    /\ Selected
    /\ pc = "error"
    /\ raised.type = "PermissionError"
    /\ local.task.statements[local.index].op = "exec.cmd"
    /\ dispatched = <<1>>
    /\ spawned = <<>>

\* C6: the k-th call (k = 0, 1, ...) of an agent that reaches worker
\* selection, counted from a fresh counter with no reload of the agent in
\* between, selects P[k mod |P|], P being the agent's uses flattened in
\* declaration order; uses w1 count 2, w2 count 1 select w1, w1, w2 and again.
C6_RoundRobin ==
    (Running /\ nth >= 0 /\ pc \notin {"selecting-worker"}
        /\ Pool(local.agent.uses) # <<>>) =>
        /\ local.worker # None
        /\ local.worker.name =
               Pool(local.agent.uses)[(nth % Len(Pool(local.agent.uses))) + 1]
        /\ (/\ Len(local.agent.uses) = 2
            /\ local.agent.uses[1].worker_name = "w1" /\ local.agent.uses[1].count = 2
            /\ local.agent.uses[2].worker_name = "w2" /\ local.agent.uses[2].count = 1) =>
               local.worker.name = <<"w1", "w1", "w2">>[(nth % 3) + 1]

\* The sixth call of the agent with uses w1 count 2, w2 count 1.
C6_Witness ==
    /\ Selected
    /\ nth = 5
    /\ Len(Pool(local.agent.uses)) = 3
    /\ local.worker.name = "w2"

\* The statements of the task in flight, and where a relative path named by
\* a statement lies under the sandbox root.
Statements == local.task.statements

Target(stmt) == root \o Path(_dequote(stmt.arg)).parts

\* What holds at each position of a run_task call that found its agent and
\* task; a failure inside the loop is at index local.index.
C7_Positions ==
    Running =>
        /\ \A j \in 1..Len(executed) : executed[j].index = j
        /\ \A j \in 1..Len(dispatched) : dispatched[j] = j
        /\ pc \in {"selecting-worker", "checking-access"} =>
              executed = <<>> /\ dispatched = <<>> /\ result = None
        /\ pc = "executing-statements" =>
              /\ Len(executed) = local.index - 1
              /\ Len(dispatched) = local.index - 1
              /\ result = None
        /\ pc = "done" =>
              /\ Len(executed) = Len(Statements)
              /\ result # None
              /\ raised = NoError
        /\ pc = "error" =>
              /\ result = None
              /\ raised # NoError
              /\ local.index = 0 => executed = <<>> /\ dispatched = <<>>
              /\ local.index >= 1 =>
                    /\ Len(executed) = local.index - 1
                    /\ Len(dispatched) \in {local.index - 1, local.index}
                    /\ Len(log) >= Len(executed)
                    /\ \A j \in 1..Len(executed) :
                          Statements[j].op = "fs.create" => exists(fs, Target(Statements[j]))

\* The order of the positions of a call.
C7_Order ==
    pc' # pc =>
        <<pc, pc'>> \in
            { <<"idle", "selecting-worker">>, <<"idle", "error">>, <<"idle", "done">>,
              <<"selecting-worker", "checking-access">>, <<"selecting-worker", "error">>,
              <<"checking-access", "executing-statements">>, <<"checking-access", "error">>,
              <<"executing-statements", "done">>, <<"executing-statements", "error">>,
              <<"done", "idle">>, <<"error", "idle">> }

\* C7: run_task goes from selecting the worker to checking access to
\* executing the statements in declaration order to done; when the
\* capability check or the execution of statement i fails, exactly the
\* statements before i have been executed, in order and with their effects
\* kept, no statement after i is dispatched, and the call ends in an error
\* with no ExecutionResult.
C7_RunTaskStateMachine == []C7_Positions /\ [][C7_Order]_vars

\* The second statement fails after the first created a file.
C7_Witness ==
    /\ Running
    /\ pc = "error"
    /\ local.index = 2
    /\ Len(Statements) = 3
    /\ Statements[1].op = "fs.create"
    /\ Len(executed) = 1
    /\ fs # pre.fs

\* The worker that round-robin selects for the call in flight.
RoundRobinChoice ==
    Pool(agents[call.agent].uses)
        [((IF call.agent \in DOMAIN pre.rr_index THEN pre.rr_index[call.agent] ELSE 0)
             % Len(Pool(agents[call.agent].uses))) + 1]

\* C8: a run_task call that completes every statement returns an
\* ExecutionResult with status_code 0, the agent and task of the call, the
\* name of the worker round-robin selected for it, and as stdout and stderr
\* the outputs of the statements concatenated in statement order: the text of
\* the file for fs.open, the captured streams for exec.ps and exec.cmd.
C8_ExecutionResult ==
    (call.op = "run_task" /\ pc = "done") =>
        /\ result.status_code = 0
        /\ result.agent = call.agent
        /\ result.task = call.task
        /\ result.worker = RoundRobinChoice
        /\ Len(executed) = Len(tasks[call.task].statements)
        /\ result.stdout = Join([j \in 1..Len(executed) |-> executed[j].out])
        /\ result.stderr = Join([j \in 1..Len(executed) |-> executed[j].err])
        /\ \A j \in 1..Len(executed) :
              /\ Statements[j].op = "fs.open" =>
                    /\ executed[j].out = fs[Target(Statements[j])].text
                    /\ executed[j].err = ""
              /\ Statements[j].op = "fs.create" => executed[j].out = "" /\ executed[j].err = ""
              /\ Statements[j].op \in {"exec.ps", "exec.cmd"} =>
                    \E proc \in ProcOutcomes :
                        /\ proc.launched
                        /\ proc.returncode = 0
                        /\ executed[j].out = proc.stdout
                        /\ executed[j].err = proc.stderr

\* Three statements, the second and the third with output.
C8_Witness ==
    /\ call.op = "run_task"
    /\ pc = "done"
    /\ Len(executed) = 3
    /\ result.stdout = "hihello"
    /\ result.worker = "w2"

(***************************************************************************)
(* Cancellation: a command-line front end registers its cancel predicate   *)
(* and may request cancellation at any moment of a call.                   *)
(***************************************************************************)
CancelFiles == {worker_basic, worker_full, agent_two_workers, task_basic, task_suite}

NextCancel ==
    \/ NewCLI
    \/ request_cancel
    \/ clear_cancel
    \/ \E file \in CancelFiles : LoadFile(file)
    \/ \E t \in {"hello", "build", "multi"} : RunTaskCall("alpha", t)
    \/ SelectWorker
    \/ EnforceAccess
    \/ \E proc \in ProcOutcomes : RunStatement(proc)
    \/ Finish
    \/ Return

SpecCancel == Init /\ [][NextCancel]_vars

CancelledError == PsykerError("ExecError", <<"task cancelled by user">>, NoSpan)

\* Every statement dispatched was polled for, and a cancelled call has ended
\* in an error without dispatching the statement it was polled at.
C9_Polled ==
    (Running /\ cancel_check # NONE) =>
        /\ Range(dispatched) \subseteq Range(polled)
        /\ raised = CancelledError =>
              /\ pc = "error"
              /\ result = None
              /\ polled # <<>>
              /\ polled[Len(polled)] = local.index
              /\ \A d \in Range(dispatched) : d < local.index
              /\ Len(executed) = Len(dispatched)

\* One step of the loop with a predicate registered: a dispatch comes with a
\* poll that found the flag clear, and a poll that finds it set raises and
\* dispatches, starts and writes nothing.
C9_PollStep ==
    (pc = "executing-statements" /\ cancel_check # NONE) =>
        /\ dispatched' # dispatched =>
              /\ ~cancel_requested
              /\ polled' = Append(polled, local.index)
              /\ dispatched' = Append(dispatched, local.index)
        /\ (polled' # polled /\ cancel_requested) =>
              /\ pc' = "error"
              /\ raised' = CancelledError
              /\ UNCHANGED <<dispatched, executed, spawned, fs, log>>
        /\ (pc' = "error" /\ raised' = CancelledError) => cancel_requested

SandboxFs(root_kind, ws, lk) ==
    LET real_root == IF root_kind = "link" THEN <<"data">> ELSE root
        paths == {<<"etc">>, real_root, Append(real_root, "tmp")}
                 \cup (IF root_kind = "link" THEN {root} ELSE {})
                 \cup (IF ws # "absent" THEN {Append(real_root, "workspace")} ELSE {})
                 \cup (IF lk # "absent" THEN {real_root \o <<"workspace", "link">>} ELSE {})
    IN  [p \in paths |->
            CASE p = root /\ root_kind = "link" -> Link(PathValue(TRUE, <<"data">>))
              [] p = Append(real_root, "workspace") /\ ws = "out" ->
                    Link(PathValue(TRUE, <<"etc">>))
              [] p = Append(real_root, "workspace") /\ ws = "in" ->
                    Link(PathValue(FALSE, <<"tmp">>))
              [] p = real_root \o <<"workspace", "link">> /\ lk = "out" ->
                    Link(PathValue(TRUE, <<"etc">>))
              [] p = real_root \o <<"workspace", "link">> /\ lk = "up" ->
                    Link(PathValue(FALSE, <<"..", "..">>))
              [] p = real_root \o <<"workspace", "link">> /\ lk = "in" ->
                    Link(PathValue(FALSE, <<"..", "tmp">>))
              [] p = real_root \o <<"workspace", "link">> /\ lk = "dangling" ->
                    Link(PathValue(TRUE, <<"gone">>))
              [] OTHER -> Dir]

SandboxFilesystems ==
    {SandboxFs(k, ws, "absent") : k \in {"dir", "link"}, ws \in {"absent", "dir", "out", "in"}}
    \cup {SandboxFs(k, "dir", lk) : k \in {"dir", "link"}, lk \in {"out", "up", "in", "dangling"}}

PathNames == {"..", "sb", "etc", "workspace", "link", "x"}

Candidates == {PathValue(a, parts) : a \in BOOLEAN, parts \in SeqsUpTo(PathNames, MaxPathLen)}

\* A call of one of the two resolvers: what it returned or raised.
SandboxCall(op, candidate, r) ==
    /\ pc = "idle"
    /\ call' = [NoCall EXCEPT !.op = op, !.arg = candidate]
    /\ pre' = Snapshot
    /\ fs' = r.fs
    /\ raised' = r.err
    /\ result' = IF Failed(r) THEN None ELSE [path |-> r.val]
    /\ pc' = IF Failed(r) THEN "error" ELSE "done"
    /\ UNCHANGED <<guiVars, regVars, rr_index, cancelVars, local, log, dispatched, executed, spawned,
                   polled, nth, hist>>

ResolveUnderRoot(candidate) ==
    SandboxCall("resolve_under_root", candidate, resolve_under_root(fs, candidate))

ResolveInWorkspace(candidate) ==
    SandboxCall("resolve_in_workspace", candidate, resolve_in_workspace(fs, candidate))

InitSandbox ==
    /\ InitRuntime
    /\ fs \in SandboxFilesystems

NextSandbox ==
    \/ \E candidate \in Candidates : ResolveUnderRoot(candidate)
    \/ \E candidate \in Candidates : ResolveInWorkspace(candidate)
    \/ Return

SpecSandbox == InitSandbox /\ [][NextSandbox]_vars

\* Where the path given to the call in flight leads, links followed.
LeadsTo ==
    resolve(fs, IF call.arg.abs THEN call.arg.parts
                ELSE (IF call.op = "resolve_under_root" THEN root ELSE workspace)
                     \o call.arg.parts)

InsideRoot(path) == IsPrefix(resolve(fs, root), path)

\* C5: a path returned by resolve_under_root or resolve_in_workspace is the
\* sandbox root or below it, as returned and with its links followed; for an
\* input that leads out of the root (by "..", as an absolute path elsewhere,
\* or through a link in the sandbox that points out of it) the call raises
\* SandboxError and returns no path.
C5_SandboxContainment ==
    (call.op \in {"resolve_under_root", "resolve_in_workspace"} /\ Ended) =>
        /\ pc = "done" =>
              /\ InsideRoot(result.path)
              /\ InsideRoot(resolve(fs, result.path))
              /\ result.path = LeadsTo
        /\ ~InsideRoot(LeadsTo) =>
              /\ pc = "error"
              /\ raised.type = "SandboxError"
              /\ result = None

\* A relative path with no ".." that a link in the workspace takes out.
C5_Witness ==
    /\ call.op = "resolve_in_workspace"
    /\ call.arg = PathValue(FALSE, <<"link", "x">>)
    /\ <<"sb", "workspace", "link">> \in DOMAIN fs
    /\ fs[<<"sb", "workspace", "link">>].kind = "link"
    /\ pc = "error"
    /\ raised.type = "SandboxError"

(***************************************************************************)
(* The registries under loads and runs together: the worker, agent and     *)
(* task files below, every agent file of at most MaxUses use clauses, and  *)
(* run_task for a loaded and an unknown agent and task.  Two files define  *)
(* worker w1, every agent file defines alpha, and task_twice defines task  *)
(* hello twice, so that definitions replace one another.                   *)
(***************************************************************************)
worker_again ==
    SourceFile("worker_again.psyw", ".psyw",
        << <<W("worker"), W("w1"), S("{")>>,
           <<W("allow"), W("fs.open"), S(";")>>,
           <<W("allow"), W("fs.create"), S(";")>>,
           <<S("}")>> >>)

task_twice ==
    SourceFile("task_twice.psy", ".psy",
        << <<At, S("{"), W("agents"), S(":"), S("["), W("beta"), S("]"), S("}")>>,
           <<W("task"), W("hello"), S("{")>>,
           <<W("fs.open"), Q("\"workspace/input.txt\""), S(";")>>,
           <<S("}")>>,
           <<W("task"), W("other"), S("{"), S("}")>>,
           <<At, S("{"), S("}")>>,
           <<W("task"), W("hello"), S("{")>>,
           <<W("fs.create"), Q("\"workspace/out.txt\""), S(";")>>,
           <<W("fs.open"), Q("\"workspace/input.txt\""), S(";")>>,
           <<S("}")>> >>)

\* A file of an unsupported suffix holding a character no token starts with.
broken_txt ==
    SourceFile("broken.txt", ".txt",
        << <<W("worker"), W("w1"), S("{")>>,
           <<W("allow"), <<"BAD", "$">>, S(";")>>,
           <<S("}")>> >>)

RegistryFiles ==
    {worker_basic, worker_again, task_basic, task_twice, task_missing_semicolon, notes_txt,
     broken_txt}
    \cup {AgentSource(clauses) : clauses \in UseLists}

NextRegistry ==
    \/ \E file \in RegistryFiles : LoadFile(file)
    \/ \E a \in {"alpha", "ghost"}, t \in {"hello", "nothing"} : RunTaskCall(a, t)
    \/ SelectWorker
    \/ EnforceAccess
    \/ \E proc \in ProcOutcomes : RunStatement(proc)
    \/ Finish
    \/ Return

SpecRegistry == Init /\ [][NextRegistry]_vars

\* C11: in every state reached by load_file calls, successful or failed, and
\* run_task calls, every use of every agent in the agents registry names a
\* worker that is a key of the workers registry and has a count of at least 1.
C11_AgentsReferenceLoadedWorkers ==
    \A name \in DOMAIN agents :
        \A i \in 1..Len(agents[name].uses) :
            /\ agents[name].uses[i].worker_name \in DOMAIN workers
            /\ agents[name].uses[i].count >= 1

\* An agent of two uses is registered and a run_task call for it, not its
\* first, is executing statements.
C11_Witness ==
    /\ "alpha" \in DOMAIN agents
    /\ Len(agents["alpha"].uses) = 2
    /\ call.op = "run_task"
    /\ pc = "executing-statements"
    /\ "alpha" \in DOMAIN rr_index

\* The file of the load_file call in flight.
Loading(file) == call.op = "load_file" /\ call.path = file.path /\ call.text = file.text

\* C12: when load_file has succeeded on a file, whatever the registries were,
\* a second load_file on the same file right after it succeeds too, returns
\* the same document and leaves the workers, agents and tasks registries as
\* the first call left them.
C12_LoadTwiceIsLoadOnce ==
    \A file \in RegistryFiles :
        (Loading(file) /\ pc = "done") =>
            /\ load_file(Reg, file).err = NoError
            /\ load_file(Reg, file).document = result
            /\ load_file(Reg, file).reg = Reg

\* The second of two loads of a task file that defines a name twice.
C12_Witness ==
    /\ Loading(task_twice)
    /\ pc = "done"
    /\ pre.tasks = tasks
    /\ "w1" \in DOMAIN workers
    /\ "alpha" \in DOMAIN agents

\* The names a task document defines, and the last definition it holds of a
\* name.
TaskNames(document) == {document.tasks[i].name : i \in 1..Len(document.tasks)}

LastDefinition(document, name) ==
    document.tasks[CHOOSE i \in 1..Len(document.tasks) :
                      /\ document.tasks[i].name = name
                      /\ \A j \in (i + 1)..Len(document.tasks) : document.tasks[j].name # name]

\* The registry after is the registry before with the names defined mapped
\* to their definitions: no other key is added, dropped or changed.
Replaced(before, after, names, definition(_)) ==
    /\ DOMAIN after = (DOMAIN before) \cup names
    /\ \A name \in names : after[name] = definition(name)
    /\ \A name \in (DOMAIN before) \ names : after[name] = before[name]

\* C13: after a successful load_file each name the file defines is mapped, in
\* the registry of its kind, to the file's definition, whether or not the
\* name was defined before; of two tasks of one name in a file the later one
\* is kept; every other entry of the three registries is as it was.
C13_LastLoadWins ==
    (call.op = "load_file" /\ pc = "done") =>
        /\ result.doc = "WorkerDocument" =>
              /\ Replaced(pre.workers, workers, {result.worker.name}, LAMBDA n : result.worker)
              /\ agents = pre.agents
              /\ tasks = pre.tasks
        /\ result.doc = "AgentDocument" =>
              /\ Replaced(pre.agents, agents, {result.agent.name}, LAMBDA n : result.agent)
              /\ workers = pre.workers
              /\ tasks = pre.tasks
        /\ result.doc = "TaskDocument" =>
              /\ Replaced(pre.tasks, tasks, TaskNames(result),
                          LAMBDA n : LastDefinition(result, n))
              /\ workers = pre.workers
              /\ agents = pre.agents
        /\ Loading(task_twice) =>
              /\ TaskNames(result) = {"hello", "other"}
              /\ Len(tasks["hello"].statements) = 2
              /\ tasks["hello"].access = AccessBlock(<<>>, <<>>)
        /\ Loading(worker_again) => Len(workers["w1"].allows) = 2

\* task_twice has just replaced the hello of task_basic.
C13_Witness ==
    /\ Loading(task_twice)
    /\ pc = "done"
    /\ "hello" \in DOMAIN pre.tasks
    /\ Len(pre.tasks["hello"].statements) = 1
    /\ pre.tasks["hello"].access = AccessBlock(<<"alpha">>, <<>>)
    /\ "other" \notin DOMAIN pre.tasks
    /\ "alpha" \in DOMAIN agents

(***************************************************************************)
(* run_task: the calls that resolve nothing to run.                        *)
(***************************************************************************)
UnknownAgent == call.agent \notin DOMAIN agents

UnknownTask == call.task \notin DOMAIN tasks

EmptyPool == ~UnknownAgent /\ Pool(agents[call.agent].uses) = <<>>

\* C14: a run_task call whose agent is not in the agents registry, whose task
\* is not in the tasks registry or whose agent has an empty pool ends by
\* raising ReferenceError (about the agent when both names are unknown); at
\* no point of such a call is a statement dispatched, a subprocess started or
\* a round-robin counter added or changed.
C14_UnresolvedRunRaisesReferenceError ==
    (call.op = "run_task" /\ (UnknownAgent \/ UnknownTask \/ EmptyPool)) =>
        /\ pc \in {"selecting-worker", "error"}
        /\ pc = "error" =>
              /\ raised.type = "ReferenceError"
              /\ UnknownAgent => raised.message = <<"Unknown agent '", call.agent, "'">>
              /\ (~UnknownAgent /\ UnknownTask) =>
                    raised.message = <<"Unknown task '", call.task, "'">>
              /\ (~UnknownAgent /\ ~UnknownTask) =>
                    raised.message = <<"Agent '", call.agent, "' has no workers configured.">>
        /\ dispatched = <<>>
        /\ spawned = <<>>
        /\ log = <<>>
        /\ rr_index = pre.rr_index
        /\ fs = pre.fs

\* The agent with no use clause is asked to run a loaded task, while another
\* agent's counter is stored.
C14_Witness ==
    /\ call.op = "run_task"
    /\ call.agent = "gamma"
    /\ call.task = "build"
    /\ EmptyPool
    /\ ~UnknownTask
    /\ pc = "error"
    /\ "alpha" \in DOMAIN rr_index

(***************************************************************************)
(* Subprocesses: worker w2 with no cwd, with a cwd in the workspace, with  *)
(* one that is a file, and with one that leads out of the root by "..",    *)
(* as an absolute path or through a link; agent beta, which uses w2; and a *)
(* task of an exec.ps and an exec.cmd statement.  The workspace of the     *)
(* sandbox is a directory or a link to a directory outside the root.       *)
(***************************************************************************)
ShellWorker(path, cwd_tokens) ==
    SourceFile(path, ".psyw",
        << <<W("worker"), W("w2"), S("{")>> >>
        \o (IF cwd_tokens = <<>> THEN <<>> ELSE << <<W("cwd")>> \o cwd_tokens \o <<S(";")>> >>)
        \o << <<W("allow"), W("exec.ps"), S(";")>>,
              <<W("allow"), W("exec.cmd"), S(";")>>,
              <<S("}")>> >>)

task_shell ==
    SourceFile("task_shell.psy", ".psy",
        << <<At, S("{"), S("}")>>,
           <<W("task"), W("shell"), S("{")>>,
           <<W("exec.ps"), Q("\"echo hi\""), S(";")>>,
           <<W("exec.cmd"), Q("\"echo hi\""), S(";")>>,
           <<S("}")>> >>)

ProcessFiles ==
    {ShellWorker("worker_no_cwd.psyw", <<>>),
     ShellWorker("worker_cwd_run.psyw", <<Q("\"workspace/run\"")>>),
     ShellWorker("worker_cwd_file.psyw", <<Q("\"workspace/input.txt\"")>>),
     ShellWorker("worker_cwd_up.psyw", <<Q("\"../out\"")>>),
     ShellWorker("worker_cwd_abs.psyw", <<Q("\"/etc/passwd\"")>>),
     ShellWorker("worker_cwd_link.psyw", <<P("workspace/link")>>),
     agent_beta, task_shell}

\* The sandbox whose workspace is a link to /etc.
LinkedWorkspaceFs ==
    LET paths == { <<"sb">>, <<"sb", "workspace">>, <<"sb", "logs">>, <<"sb", "tmp">>,
                   <<"etc">>, <<"etc", "passwd">> }
    IN  [p \in paths |->
            CASE p = <<"sb", "workspace">> -> Link(PathValue(TRUE, <<"etc">>))
              [] p = <<"etc", "passwd">> -> File("root")
              [] OTHER -> Dir]

InitProcess ==
    /\ InitRuntime
    /\ fs \in {StartFs, LinkedWorkspaceFs}

NextProcess ==
    \/ \E file \in ProcessFiles : LoadFile(file)
    \/ RunTaskCall("beta", "shell")
    \/ SelectWorker
    \/ EnforceAccess
    \/ \E proc \in ProcOutcomes : RunStatement(proc)
    \/ Finish
    \/ Return

SpecProcess == InitProcess /\ [][NextProcess]_vars

\* Where the selected worker's cwd leads, links followed: the directory a
\* subprocess started there works in.
CwdLeadsTo ==
    IF ~Truthy(local.worker.cwd) THEN resolve(fs, workspace)
    ELSE resolve(fs, (IF Path(_dequote(local.worker.cwd)).abs THEN <<>> ELSE root)
                     \o Path(_dequote(local.worker.cwd)).parts)

\* The statement the call in flight is at is an exec statement the worker
\* may run.
AtExec ==
    /\ local.index \in 1..Len(local.task.statements)
    /\ local.task.statements[local.index].op \in {"exec.ps", "exec.cmd"}
    /\ local.task.statements[local.index].op \in Allowed(local.worker)

\* C15 as stated: every subprocess of an exec.ps / exec.cmd statement is
\* started in the worker's cwd resolved under the root, or in the workspace
\* when the worker declares none; when the cwd leads out of the root the
\* statement raises SandboxError and starts nothing; so the directory a
\* subprocess works in is never outside the root.
C15_AsStated ==
    Selected =>
        /\ \A i \in 1..Len(spawned) :
              /\ spawned[i].cwd = (IF Truthy(local.worker.cwd) THEN CwdLeadsTo ELSE workspace)
              /\ InsideRoot(resolve(fs, spawned[i].cwd))
        /\ (Truthy(local.worker.cwd) /\ ~InsideRoot(CwdLeadsTo)) =>
              /\ spawned = <<>>
              /\ (Ended /\ AtExec) => raised.type = "SandboxError"

\* The part of C15 that holds: the same for the workers that declare a cwd.
C15_DeclaredCwdContained ==
    (Selected /\ Truthy(local.worker.cwd)) =>
        /\ \A i \in 1..Len(spawned) :
              /\ spawned[i].cwd = CwdLeadsTo
              /\ InsideRoot(resolve(fs, spawned[i].cwd))
        /\ ~InsideRoot(CwdLeadsTo) =>
              /\ spawned = <<>>
              /\ (Ended /\ AtExec) => raised.type = "SandboxError"

Supported(file) == lower(file.suffix) \in {".psy", ".psyw", ".psya"}

\* C16 as stated: load_file on a path whose suffix is not .psy, .psyw or
\* .psya raises DialectError, whatever the file holds, and leaves the
\* registries unchanged.
C16_AsStated ==
    \A file \in RegistryFiles :
        (Loading(file) /\ Ended /\ ~Supported(file)) =>
            /\ pc = "error"
            /\ raised.type = "DialectError"
            /\ Reg = [workers |-> pre.workers, agents |-> pre.agents, tasks |-> pre.tasks]

\* The part of C16 that holds: such a load raises, DialectError when the
\* file's text is made of tokens, and leaves the registries unchanged.
C16_UnsupportedSuffixRefused ==
    \A file \in RegistryFiles :
        (Loading(file) /\ Ended /\ ~Supported(file)) =>
            /\ pc = "error"
            /\ raised.type \in {"DialectError", "SyntaxError"}
            /\ FirstBad(file.text) = 0 => raised.type = "DialectError"
            /\ Reg = [workers |-> pre.workers, agents |-> pre.agents, tasks |-> pre.tasks]

(***************************************************************************)
(* Dialects: for each dialect, a file with a keyword of another dialect's  *)
(* exclusive vocabulary where a definition is expected, and one with it    *)
(* where a statement is expected, beside files that load.                  *)
(***************************************************************************)
Dialects == {"task", "worker", "agent"}

\* The exclusive vocabulary of a dialect.
Exclusive(dialect) ==
    CASE dialect = "task" -> {"task", "@access", "agents", "workers"} \cup _TASK_OPS
      [] dialect = "worker" -> {"worker", "allow", "sandbox", "cwd"}
      [] dialect = "agent" -> {"agent", "use", "count"}

Foreign(dialect) == UNION {Exclusive(other) : other \in Dialects \ {dialect}}

Suffix(dialect) ==
    CASE dialect = "task" -> ".psy" [] dialect = "worker" -> ".psyw" [] dialect = "agent" -> ".psya"

Keyword(word) == IF word = "@access" THEN At ELSE W(word)

\* <word> x { }
DefinitionProbe(dialect, word) ==
    SourceFile("probe" \o Suffix(dialect), Suffix(dialect),
        << <<Keyword(word), W("x"), S("{"), S("}")>> >>)

\* <dialect> x {
\* <word> y ;
\* }
StatementProbe(dialect, word) ==
    SourceFile("probe" \o Suffix(dialect), Suffix(dialect),
        << <<W(dialect), W("x"), S("{")>>,
           <<Keyword(word), W("y"), S(";")>>,
           <<S("}")>> >>)

DialectFiles ==
    {worker_basic, agent_basic, task_basic}
    \cup {DefinitionProbe(d, word) : d \in Dialects, word \in Foreign("task") \cup Foreign("worker")}
    \cup {StatementProbe(d, word) : d \in Dialects, word \in Foreign("task") \cup Foreign("worker")}

NextDialect ==
    \/ \E file \in DialectFiles : LoadFile(file)
    \/ Return

SpecDialect == Init /\ [][NextDialect]_vars

\* C17 as stated: a file of one dialect with a keyword of another dialect's
\* exclusive vocabulary where a definition or a statement is expected is
\* refused with DialectError, located at that keyword.
C17_AsStated ==
    \A d \in Dialects : \A word \in Foreign(d) :
        /\ (Loading(DefinitionProbe(d, word)) /\ Ended) =>
              /\ pc = "error"
              /\ raised.type = "DialectError"
              /\ raised.span = [line |-> 1, column |-> 1]
        /\ (Loading(StatementProbe(d, word)) /\ Ended) =>
              /\ pc = "error"
              /\ raised.type = "DialectError"
              /\ raised.span = [line |-> 2, column |-> 1]

\* The keywords each grammar looks for where a definition and where a
\* statement is expected.
RejectedAtDefinition(dialect) ==
    CASE dialect = "task" -> {"worker", "agent"}
      [] dialect = "worker" -> {"task", "agent", "@access"}
      [] dialect = "agent" -> {"task", "worker", "@access"} \cup _TASK_OPS

RejectedAtStatement(dialect) ==
    CASE dialect = "task" -> {"worker", "agent", "use", "allow", "sandbox", "cwd"}
      [] dialect = "worker" -> _TASK_ONLY \cup _AGENT_ONLY
      [] dialect = "agent" -> _TASK_ONLY \cup _WORKER_ONLY

\* The part of C17 that holds: such a file is always refused, at that
\* keyword; with DialectError for the keywords above and with SyntaxError for
\* the others.
C17_ForeignKeywordRefused ==
    \A d \in Dialects : \A word \in Foreign(d) :
        /\ (Loading(DefinitionProbe(d, word)) /\ Ended) =>
              /\ pc = "error"
              /\ raised.type = IF word \in RejectedAtDefinition(d)
                               THEN "DialectError" ELSE "SyntaxError"
              /\ raised.span = [line |-> 1, column |-> 1]
        /\ (Loading(StatementProbe(d, word)) /\ Ended) =>
              /\ pc = "error"
              /\ raised.type = IF word \in RejectedAtStatement(d)
                               THEN "DialectError" ELSE "SyntaxError"
              /\ raised.span = [line |-> 2, column |-> 1]

(***************************************************************************)
(* run_task: what an error says of the call that raised it.  An error      *)
(* holds its message, its span and its hint (errors.py 22-26); the hints   *)
(* of the errors below are fixed texts or the captured output of the       *)
(* subprocess, and none has a span.                                        *)
(***************************************************************************)
Names(err) == {name \in {"alpha", "beta", "gamma", "w1", "w2", "hello", "noaccess",
                         "build", "multi", "escape", "leak"} :
                  \E i \in 1..Len(err.message) : err.message[i] = name}

\* C18 as stated: an AccessError, PermissionError, SandboxError or ExecError
\* raised by run_task after the worker was selected carries the agent name,
\* the selected worker's name and the task name of the call.
C18_AsStated ==
    (Selected /\ pc = "error"
        /\ raised.type \in {"AccessError", "PermissionError", "SandboxError", "ExecError"}) =>
        {call.agent, local.worker.name, call.task} \subseteq Names(raised)

(***************************************************************************)
(* cli.py: PsykerCLI._load_directory.  A directory is [exists, entries];   *)
(* an entry is [stem, kind, file]: the name without its suffix, "file" or  *)
(* "dir", and the source file [path, suffix, text].  Names are compared    *)
(* lowercased; the stems of the files here are "a" and "B".                *)
(***************************************************************************)
Stems == {"a", "B"}

\* str.lower() of a stem, as its place in the alphabet.
name_lower(stem) == CASE stem = "a" -> 1 [] stem = "B" -> 2 [] OTHER -> 3

\* order = {".psyw": 0, ".psya": 1, ".psy": 2}
order == [s \in {".psyw", ".psya", ".psy"} |->
             CASE s = ".psyw" -> 0 [] s = ".psya" -> 1 [] s = ".psy" -> 2]

\* The sort that goes by the file names alone.
SortKey_name_only(entry) == <<0, name_lower(entry.stem)>>

\* key=lambda path: (order[path.suffix.lower()], path.name.lower())
SortKey(entry) == <<order[lower(entry.file.suffix)], name_lower(entry.stem)>>

\* Tuple comparison: key k is not after key l.
KeyLeq(k, l) == k[1] < l[1] \/ (k[1] = l[1] /\ k[2] <= l[2])

\* files.sort(key=...): the orders a stable sort can leave the entries in,
\* over the orders iterdir() can list them in.
RECURSIVE Sorted(_)
Sorted(entries) ==
    IF entries = {} THEN {<<>>}
    ELSE UNION {{<<e>> \o rest : rest \in Sorted(entries \ {e})} :
                 e \in {m \in entries : \A other \in entries : KeyLeq(SortKey(m), SortKey(other))}}

\* _load_single_file on the registries reg: [err, document, reg].
_load_single_file(reg, file) ==
    IF lower(file.suffix) \notin {".psy", ".psya", ".psyw"}
    THEN [err |-> PsykerError("DialectError",
                      <<"Unsupported file extension '", file.suffix, "'">>, NoSpan),
          document |-> None, reg |-> reg]
    ELSE load_file(reg, file)

\* The loop that goes on to the next file when one fails.
RECURSIVE _load_files_skipping(_, _, _)
_load_files_skipping(reg, files, i) ==
    IF i > Len(files) THEN [err |-> NoError, reg |-> reg, loaded |-> i - 1]
    ELSE IF Failed(_load_single_file(reg, files[i].file))
    THEN [err |-> _load_single_file(reg, files[i].file).err,
          reg |-> _load_files_skipping(reg, files, i + 1).reg, loaded |-> i - 1]
    ELSE _load_files_skipping(_load_single_file(reg, files[i].file).reg, files, i + 1)

\* for path in files: self._load_single_file(path), from file number i:
\* the error that ended the loop (or NoError), the registries afterwards and
\* the number of files loaded.
RECURSIVE _load_files(_, _, _)
_load_files(reg, files, i) ==
    IF i > Len(files) THEN [err |-> NoError, reg |-> reg, loaded |-> i - 1]
    ELSE IF Failed(_load_single_file(reg, files[i].file))
    THEN [err |-> _load_single_file(reg, files[i].file).err, reg |-> reg, loaded |-> i - 1]
    ELSE _load_files(_load_single_file(reg, files[i].file).reg, files, i + 1)

\* _load_directory(directory), with files the list as sorted.
LoadDirectory(directory, files) ==
    /\ pc = "idle"
    /\ files \in Sorted({e \in directory.entries :
                            e.kind = "file" /\ lower(e.file.suffix) \in DOMAIN order})
    /\ call' = [NoCall EXCEPT !.op = "load_directory", !.path = "dir"]
    /\ pre' = Snapshot
    /\ IF ~directory.exists
       THEN /\ raised' = PsykerError("PsykerError", <<"Directory not found: ", "dir">>, NoSpan)
            /\ pc' = "error"
            /\ result' = [directory |-> directory, files |-> <<>>, loaded |-> 0]
            /\ UNCHANGED <<regVars, hist>>
       ELSE /\ workers' = _load_files(Reg, files, 1).reg.workers
            /\ agents' = _load_files(Reg, files, 1).reg.agents
            /\ tasks' = _load_files(Reg, files, 1).reg.tasks
            /\ raised' = _load_files(Reg, files, 1).err
            /\ pc' = IF _load_files(Reg, files, 1).err.type # "" THEN "error" ELSE "done"
            /\ result' = [directory |-> directory, files |-> files,
                          loaded |-> _load_files(Reg, files, 1).loaded]
            /\ hist' = [a \in AgentNames |->
                           IF a \in DOMAIN rr_index /\ agents'[a] # agents[a]
                           THEN [fresh |-> FALSE, k |-> 0, picks |-> <<>>] ELSE hist[a]]
    /\ UNCHANGED <<guiVars, rr_index, cancelVars, fs, local, log, dispatched, executed, spawned,
                   polled, nth>>

\* What a directory may hold: a file defining worker w1, one defining w2
\* (its suffix in capitals), an agent file using both, an agent file with a
\* count of 0 and a task file, each under either stem, beside a text file
\* and a subdirectory c.psyw.
zero_count == AgentFile("zero", "beta", << <<"w1", "0">> >>)

Holdings == <<worker_basic, worker_full, agent_two_workers, zero_count, task_basic>>

Entry(stem, kind, file) ==
    [stem |-> stem, kind |-> kind, file |-> [file EXCEPT !.path = stem \o file.suffix]]

\* No two entries of a directory have the same name.
Directories ==
    {[exists |-> FALSE, entries |-> {}]}
    \cup {[exists |-> TRUE,
           entries |-> {Entry(pick[i], "file", Holdings[i]) : i \in {j \in DOMAIN Holdings : pick[j] # "-"}}
                       \cup {Entry("a", "file", notes_txt), Entry("c", "dir", worker_basic)}] :
            pick \in {p \in [DOMAIN Holdings -> Stems \cup {"-"}] :
                         \A i, j \in DOMAIN Holdings :
                             (i # j /\ p[i] # "-" /\ p[i] = p[j])
                                 => Holdings[i].suffix # Holdings[j].suffix}}

NextDirectory ==
    \/ \E directory \in Directories :
           \E files \in Sorted({e \in directory.entries :
                                   e.kind = "file" /\ lower(e.file.suffix) \in DOMAIN order}) :
               LoadDirectory(directory, files)
    \/ Return

SpecDirectory == Init /\ [][NextDirectory]_vars

\* The files _load_directory picks from a directory, and those of a suffix.
Picked(directory) ==
    {e \in directory.entries : e.kind = "file" /\ lower(e.file.suffix) \in DOMAIN order}

Of(directory, ext) == {e \in Picked(directory) : lower(e.file.suffix) = ext}

\* The directory holds, for every agent file in it, a worker file for each
\* worker the agent uses.
HoldsWorkersOfAgents(directory) ==
    \A e \in Of(directory, ".psya") :
        \A i \in 1..Len(parse_path(e.file).val.agent.uses) :
            \E w \in Of(directory, ".psyw") :
                parse_path(w.file).val.worker.name =
                    parse_path(e.file).val.agent.uses[i].worker_name

\* Every use clause of every agent file in the directory has a count of at
\* least 1.
CountsPositive(directory) ==
    \A e \in Of(directory, ".psya") :
        \A i \in 1..Len(parse_path(e.file).val.agent.uses) :
            parse_path(e.file).val.agent.uses[i].count >= 1

\* The files were taken in the order .psyw, .psya, .psy, by lowercased name
\* within a suffix, each picked file once.
LoadedInOrder ==
    /\ {result.files[i] : i \in 1..Len(result.files)} = Picked(result.directory)
    /\ Len(result.files) = Cardinality(Picked(result.directory))
    /\ \A i, j \in 1..Len(result.files) :
           i < j =>
               /\ order[lower(result.files[i].file.suffix)]
                      <= order[lower(result.files[j].file.suffix)]
               /\ lower(result.files[i].file.suffix) = lower(result.files[j].file.suffix)
                      => name_lower(result.files[i].stem) <= name_lower(result.files[j].stem)

DirectoryLoaded ==
    call.op = "load_directory" /\ pc \in {"done", "error"} /\ result.directory.exists

\* C19 as stated: directory loading takes the files in the order .psyw,
\* .psya, .psy, and a directory that holds an agent with all the workers it
\* references loads without ReferenceError.
C19_AsStated ==
    DirectoryLoaded =>
        /\ LoadedInOrder
        /\ HoldsWorkersOfAgents(result.directory) => raised.type # "ReferenceError"

\* C19: directory loading takes every .psyw file before any .psya file and
\* every .psya file before any .psy file, by file name within a suffix, so a
\* directory that holds an agent whose counts are all at least 1 together
\* with all the workers it references loads without ReferenceError whatever
\* the files' names and whatever was loaded before.
C19_WorkersBeforeAgentsBeforeTasks ==
    DirectoryLoaded =>
        /\ LoadedInOrder
        /\ (HoldsWorkersOfAgents(result.directory) /\ CountsPositive(result.directory))
               => raised.type # "ReferenceError"

\* Into empty registries, a directory was loaded whose agent file's name
\* sorts before the names of the two worker files it needs.
C19_Witness ==
    /\ DirectoryLoaded
    /\ pc = "done"
    /\ pre.workers = EmptyDict
    /\ Entry("a", "file", agent_two_workers) \in result.directory.entries
    /\ Entry("B", "file", worker_basic) \in result.directory.entries
    /\ Entry("B", "file", worker_full) \in result.directory.entries
    /\ Entry("B", "file", task_basic) \in result.directory.entries
    /\ result.loaded = 4
    /\ "alpha" \in DOMAIN agents

(***************************************************************************)
(* run_task: the round-robin counter of the agent that runs.               *)
(***************************************************************************)
\* The counter the call found for its agent: self._rr_index.get(agent_name, 0).
CounterBefore == IF call.agent \in DOMAIN pre.rr_index THEN pre.rr_index[call.agent] ELSE 0

\* The pool of the agent of the call.
PoolOfCall == Pool(agents[call.agent].uses)

\* The call is past worker selection, with its agent and task resolved and a
\* pool that is not empty.
PastSelection ==
    /\ call.op = "run_task"
    /\ ~UnknownAgent /\ ~UnknownTask /\ ~EmptyPool
    /\ pc # "selecting-worker"

\* C20: once a run_task call that resolved its agent and task and found a
\* non-empty pool has selected its worker, the agent's stored counter is the
\* counter the call found plus one, modulo the pool length, and so lies in
\* 0..len(pool)-1; it stays so to the end of the call, whether the call
\* returns or raises, and no other agent's counter is touched.
C20_CounterAdvancesByOne ==
    PastSelection =>
        /\ call.agent \in DOMAIN rr_index
        /\ rr_index[call.agent] = (CounterBefore + 1) % Len(PoolOfCall)
        /\ rr_index[call.agent] \in 0..(Len(PoolOfCall) - 1)
        /\ \A name \in DOMAIN rr_index \ {call.agent} :
               name \in DOMAIN pre.rr_index /\ rr_index[name] = pre.rr_index[name]
        /\ DOMAIN pre.rr_index \subseteq DOMAIN rr_index

\* A call failed after its worker was selected, for an agent reloaded with a
\* pool no longer than the counter it had reached.
C20_Witness ==
    /\ PastSelection
    /\ pc = "error"
    /\ raised.type \in {"AccessError", "PermissionError", "SandboxError", "ExecError"}
    /\ CounterBefore >= Len(PoolOfCall)
    /\ CounterBefore >= 2

(***************************************************************************)
(* Reloading an agent between its calls: agent alpha with the pool         *)
(* w1, w1, w2 or, from another file, with the pool w2, w1; agent beta; and *)
(* tasks that end with a result, with AccessError, with PermissionError    *)
(* and with SandboxError.                                                  *)
(***************************************************************************)
agent_swapped == AgentFile("agent_swapped.psya", "alpha", << <<"w2", "1">>, <<"w1", "1">> >>)

ReloadFiles ==
    {worker_basic, worker_full, agent_two_workers, agent_swapped, agent_beta, task_basic,
     task_suite}

NextReload ==
    \/ \E file \in ReloadFiles : LoadFile(file)
    \/ \E a \in {"alpha", "beta"}, t \in {"hello", "noaccess", "multi", "escape"} :
           RunTaskCall(a, t)
    \/ SelectWorker
    \/ EnforceAccess
    \/ \E proc \in ProcOutcomes : RunStatement(proc)
    \/ Finish
    \/ Return

SpecReload == Init /\ [][NextReload]_vars

\* C21: no load_file call, successful or failed, adds or changes a
\* round-robin counter, and the worker a run_task call selects is the one at
\* position c mod len(pool) of the pool its agent has at the call, where c is
\* the counter the earlier calls left, also when the agent was reloaded with
\* another pool since.
C21_ReloadKeepsCounter ==
    /\ call.op = "load_file" => rr_index = pre.rr_index
    /\ PastSelection =>
           /\ local.worker # None
           /\ local.worker.name = PoolOfCall[(CounterBefore % Len(PoolOfCall)) + 1]

\* Agent alpha ran with the pool w1, w1, w2, was reloaded with the pool
\* w2, w1, and its next call selected w1, the second worker of the new pool.
C21_Witness ==
    /\ PastSelection
    /\ call.agent = "alpha"
    /\ ~hist["alpha"].fresh
    /\ hist["alpha"].picks = <<"w1">>
    /\ PoolOfCall = <<"w2", "w1">>
    /\ CounterBefore = 1
    /\ local.worker.name = "w1"

(***************************************************************************)
(* Capabilities: workers w1 and w2, each from a file that grants fs.open   *)
(* and fs.create with or without an argument; agent alpha, which uses      *)
(* both; and tasks that open, create and start subprocesses.               *)
(***************************************************************************)
\* worker <name> { allow <capability> [<argument>]; ... }
AllowWorker(name, clauses) ==
    SourceFile(name \o ".psyw", ".psyw",
        << <<W("worker"), W(name), S("{")>> >>
        \o [i \in 1..Len(clauses) |-> <<W("allow")>> \o clauses[i] \o <<S(";")>>]
        \o << <<S("}")>> >>)

AllowLists ==
    { << <<W("fs.open")>> >>,
      << <<W("fs.open"), Q("\"docs\"")>> >>,
      << <<W("fs.open"), Q("\"workspace/out.txt\"")>>, <<W("fs.create")>> >>,
      << <<W("fs.create"), Q("\"docs\"")>>, <<W("fs.open")>> >>,
      << <<W("fs.create")>> >> }

CapabilityFiles ==
    {AllowWorker(name, clauses) : name \in {"w1", "w2"}, clauses \in AllowLists}
    \cup {agent_swapped, task_basic, task_suite}

NextCapability ==
    \/ \E file \in CapabilityFiles : LoadFile(file)
    \/ \E t \in {"hello", "build", "multi"} : RunTaskCall("alpha", t)
    \/ SelectWorker
    \/ EnforceAccess
    \/ \E proc \in ProcOutcomes : RunStatement(proc)
    \/ Finish
    \/ Return

SpecCapability == Init /\ [][NextCapability]_vars

\* What _enforce_capability decides: TRUE when it raises nothing.
Grants(worker, op) == _enforce_capability(worker, op).type = ""

\* C22: any two registered workers that grant the same capability names,
\* with whatever allow arguments, get the same decision for every operation;
\* and in a run the statements dispatched are those whose operation name the
\* selected worker grants, and PermissionError is raised only for a statement
\* whose operation name no allow entry of the worker carries.
C22_CapabilityByNameOnly ==
    /\ \A a, b \in DOMAIN workers :
           Allowed(workers[a]) = Allowed(workers[b]) =>
               \A op \in _TASK_OPS : Grants(workers[a], op) = Grants(workers[b], op)
    /\ (Selected /\ local.index >= 1) =>
           /\ \A i \in Range(dispatched) :
                  local.task.statements[i].op \in Allowed(local.worker)
           /\ (pc = "error" /\ raised.type = "PermissionError") =>
                  local.task.statements[local.index].op \notin Allowed(local.worker)
           /\ (pc = "executing-statements" /\ local.index > 1) =>
                  local.task.statements[local.index - 1].op \in Allowed(local.worker)

\* w1 grants fs.open with no argument and w2 grants it for "docs"; the call
\* selected w2 and its fs.open of workspace/input.txt was carried out.
C22_Witness ==
    /\ Selected
    /\ call.task = "hello"
    /\ local.worker.name = "w2"
    /\ "w1" \in DOMAIN workers
    /\ workers["w1"].allows = <<WorkerAllow("fs.open", NONE, 2, 7)>>
    /\ workers["w2"].allows = <<WorkerAllow("fs.open", "\"docs\"", 2, 7)>>
    /\ pc = "done"
    /\ dispatched = <<1>>

(***************************************************************************)
(* run_task: the lines appended to the sandbox log.                        *)
(***************************************************************************)
\* The line statement number i of the task is to leave in the log.
LineOf(i, status) ==
    LogLine(call.agent, local.worker.name, local.task.statements[i].op, status)

\* The dispatched statement at position n of dispatched has returned.
Returned(n) == \E e \in Range(executed) : e.index = dispatched[n]

\* C23 as stated: every statement dispatched by run_task has appended exactly
\* one line to the sandbox log, naming the agent, the selected worker and the
\* op, with status=ok when the statement succeeded and status=error when it
\* failed; the lines are in the order of dispatch.
C23_AsStated ==
    (Selected /\ local.index >= 1) =>
        /\ Len(log) = Len(dispatched)
        /\ \A n \in 1..Len(dispatched) :
               n <= Len(log) =>
                   log[n] = LineOf(dispatched[n], IF Returned(n) THEN "ok" ELSE "error")

\* The part of C23 that holds: each line of the log is that of a dispatched
\* statement, in order, and only a statement that raised while its path was
\* resolved or its directories were made (an error other than ExecError)
\* leaves no line.
C23_LoggedUnlessPathFails ==
    (Selected /\ local.index >= 1) =>
        /\ Len(log) <= Len(dispatched)
        /\ Len(log) < Len(dispatched) =>
               /\ Len(log) = Len(dispatched) - 1
               /\ pc = "error"
               /\ raised.type # "ExecError"
        /\ \A n \in 1..Len(log) :
               log[n] = LineOf(dispatched[n], IF Returned(n) THEN "ok" ELSE "error")

(***************************************************************************)
(* gui/terminal.py: EmbeddedTerminal and its CommandWorker.  The worker is *)
(* moved to a QThread of its own, so the signals run_requested and         *)
(* cancel_requested, emitted on the GUI thread, are queued for the worker  *)
(* thread (inbox) and its slots run there one at a time, in order; the     *)
(* signal finished is queued for the GUI thread (outbox).                  *)
(***************************************************************************)
\* The most signals waiting for the worker thread.
MaxInbox == 2

\* A line typed into the terminal: load <file>, or run <agent> <task>.
LoadLine(file) == [verb |-> "load", file |-> file, agent |-> "", task |-> ""]

RunLine(agent_name, task_name) ==
    [verb |-> "run", file |-> None, agent |-> agent_name, task |-> task_name]

Emit(signal, line) == [signal |-> signal, line |-> line]

\* execute_command without the test of the in-flight flag.
execute_command_unguarded(line) ==
    /\ cancel_check # NONE
    /\ Len(gui.inbox) < MaxInbox
    /\ gui' = [gui EXCEPT !.typed = line, !.code = 0, !.pending_line = line,
                          !.in_flight = TRUE, !.asked = FALSE,
                          !.inbox = Append(@, Emit("run_requested", line))]
    /\ UNCHANGED <<regVars, rr_index, cancelVars, fs, callVars, hist, frame, seen>>

\* EmbeddedTerminal.execute_command(line), on the GUI thread.
execute_command(line) ==
    /\ cancel_check # NONE
    /\ Len(gui.inbox) < MaxInbox
    /\ gui' = IF gui.in_flight
              THEN [gui EXCEPT !.typed = line, !.code = 1]
              ELSE [gui EXCEPT !.typed = line, !.code = 0, !.pending_line = line,
                               !.in_flight = TRUE, !.asked = FALSE,
                               !.inbox = Append(@, Emit("run_requested", line))]
    /\ UNCHANGED <<regVars, rr_index, cancelVars, fs, callVars, hist, frame, seen>>

\* EmbeddedTerminal.request_cancel(), on the GUI thread (Stop, Ctrl+C).
terminal_request_cancel ==
    /\ cancel_check # NONE
    /\ gui.in_flight
    /\ Len(gui.inbox) < MaxInbox
    /\ gui' = [gui EXCEPT !.inbox = Append(@, Emit("cancel_requested", None)),
                          !.asked = @ \/ gui.stage = "executing"]
    /\ UNCHANGED <<regVars, rr_index, cancelVars, fs, callVars, hist, frame, seen>>

\* EmbeddedTerminal._on_command_finished(code), on the GUI thread.
_on_command_finished ==
    /\ gui.outbox # <<>>
    /\ gui' = [gui EXCEPT !.in_flight = FALSE, !.outbox = Tail(@)]
    /\ UNCHANGED <<regVars, rr_index, cancelVars, fs, callVars, hist, frame, seen>>

\* CommandWorker._run(line) up to its call of execute_line, on the worker
\* thread: the flag _running is set and the cancel flag cleared.
_run ==
    /\ gui.stage = "idle"
    /\ gui.inbox # <<>>
    /\ Head(gui.inbox).signal = "run_requested"
    /\ pc = "idle"
    /\ gui' = [gui EXCEPT !.inbox = Tail(@), !.running = TRUE, !.stage = "executing",
                          !.line = Head(gui.inbox).line]
    /\ cancel_requested' = FALSE
    /\ UNCHANGED <<regVars, rr_index, cancel_check, fs, callVars, hist, frame, seen>>

\* execute_line(line) inside _run: the load or run command calls load_file or
\* run_task.
ExecuteLoad == gui.stage = "executing" /\ gui.line.verb = "load" /\ LoadFile(gui.line.file)

ExecuteRun ==
    gui.stage = "executing" /\ gui.line.verb = "run"
        /\ RunTaskCall(gui.line.agent, gui.line.task)

\* CommandWorker._run from the return of execute_line: _running is reset and
\* finished is emitted.
_run_returns ==
    /\ gui.stage = "executing"
    /\ pc \in {"done", "error"}
    /\ gui' = [gui EXCEPT !.running = FALSE, !.stage = "idle", !.line = None,
                          !.outbox = Append(@, IF pc = "done" THEN 0 ELSE 1)]
    /\ pc' = "idle"
    /\ call' = NoCall
    /\ local' = NoLocal
    /\ raised' = NoError
    /\ result' = None
    /\ log' = <<>>
    /\ dispatched' = <<>>
    /\ executed' = <<>>
    /\ spawned' = <<>>
    /\ polled' = <<>>
    /\ nth' = -1
    /\ pre' = None
    /\ UNCHANGED <<regVars, rr_index, cancelVars, fs, hist, frame, seen>>

\* CommandWorker._cancel(), on the worker thread.
_cancel ==
    /\ gui.stage = "idle"
    /\ gui.inbox # <<>>
    /\ Head(gui.inbox).signal = "cancel_requested"
    /\ gui' = [gui EXCEPT !.inbox = Tail(@)]
    /\ cancel_requested' = (cancel_requested \/ gui.running)
    /\ UNCHANGED <<regVars, rr_index, cancel_check, fs, callVars, hist, frame, seen>>

\* The lines typed: the loads of a worker, an agent and a task file, and the
\* runs of a task of two subprocesses and of a task that is not loaded.
Lines ==
    {LoadLine(file) : file \in {ShellWorker("worker_shell.psyw", <<>>), agent_beta, task_shell}}
    \cup {RunLine("beta", t) : t \in {"shell", "nothing"}}

NextGui ==
    \/ NewCLI
    \/ \E line \in Lines : execute_command(line)
    \/ terminal_request_cancel
    \/ _on_command_finished
    \/ _run
    \/ ExecuteLoad
    \/ ExecuteRun
    \/ SelectWorker
    \/ EnforceAccess
    \/ \E proc \in ProcOutcomes : RunStatement(proc)
    \/ Finish
    \/ _run_returns
    \/ _cancel

SpecGui == Init /\ [][NextGui]_vars

\* The commands accepted and not yet reported as finished to the terminal:
\* waiting for the worker thread, being executed, or finished with the
\* report still on its way.
RunsQueued == {n \in 1..Len(gui.inbox) : gui.inbox[n].signal = "run_requested"}

Unfinished ==
    Cardinality(RunsQueued) + (IF gui.stage = "executing" THEN 1 ELSE 0) + Len(gui.outbox)

\* At most one command is under way, the in-flight flag says whether one is,
\* and a load_file or run_task call is only ever made inside it.
OneCommand ==
    /\ Unfinished <= 1
    /\ gui.in_flight <=> Unfinished = 1
    /\ pc # "idle" => (gui.stage = "executing" /\ gui.in_flight)
    /\ gui.running <=> gui.stage = "executing"

\* A step of execute_command while a command is in flight returns 1 and
\* queues nothing for the worker.
RejectsWhileInFlight ==
    (gui.in_flight /\ (gui'.typed # gui.typed \/ gui'.code # gui.code)) =>
        /\ gui'.code = 1
        /\ gui'.inbox = gui.inbox
        /\ gui'.pending_line = gui.pending_line
        /\ gui'.in_flight
        /\ UNCHANGED <<regVars, rr_index, callVars>>

\* The in-flight flag falls only in _on_command_finished, which takes the
\* worker's report of a finished command.
ClearedByReport ==
    (gui.in_flight /\ ~gui'.in_flight) =>
        /\ gui.outbox # <<>>
        /\ gui'.outbox = Tail(gui.outbox)
        /\ gui.stage = "idle"

\* C24: in the embedded terminal at most one command is executing at any
\* time; while one is in flight execute_command refuses a new line (returns
\* 1) without dispatching it, so calls into execute_line, and with them
\* load_file and run_task, never overlap; the in-flight flag is cleared only
\* when the worker has reported that the command finished.
C24_OneCommandInFlight ==
    /\ []OneCommand
    /\ [][RejectsWhileInFlight]_vars
    /\ [][ClearedByReport]_vars

\* A line was refused while the task of the command in flight was between
\* its two statements.
C24_Witness ==
    /\ gui.in_flight
    /\ gui.code = 1
    /\ gui.typed = RunLine("beta", "shell")
    /\ gui.pending_line = RunLine("beta", "shell")
    /\ gui.stage = "executing"
    /\ pc = "executing-statements"
    /\ dispatched = <<1>>
    /\ gui.inbox = <<>>

\* C29 as stated: when request_cancel was invoked while the command in
\* flight was executing, the CLI's cancel flag is true by the time the
\* command's execute_line has returned.
C29_AsStated == (gui.asked /\ gui.stage = "idle") => cancel_requested

\* What holds instead: _cancel runs on the worker thread only between two
\* runs of _run, when _running is false, so the terminal never sets the
\* cancel flag and no command run from it ends as cancelled.
C29_CancelNeverDelivered ==
    /\ ~cancel_requested
    /\ raised # CancelledError

(***************************************************************************)
(* run_task: the workers selected over consecutive calls of an agent.      *)
(***************************************************************************)
\* How often a name occurs in a sequence of names.
Occurrences(names, name) == Cardinality({n \in 1..Len(names) : names[n] = name})

\* The sum of the counts of the uses of a worker (of every worker, when the
\* name is NONE) in an agent's use clauses.
RECURSIVE CountSum(_, _)
CountSum(uses, name) ==
    IF uses = <<>> THEN 0
    ELSE (IF name \in {NONE, Head(uses).worker_name} THEN Head(uses).count ELSE 0)
         + CountSum(Tail(uses), name)

\* C25: when an agent's last |P| calls that reached worker selection were
\* all made since the agent was last loaded, |P| being the sum of its use
\* counts, each worker was selected in them exactly as many times as the sum
\* of its use counts, whatever the outcome of the calls and wherever in the
\* cycle the first of them fell.
C25_EachWorkerItsShare ==
    \A name \in AgentNames \cap DOMAIN agents :
        Len(hist[name].picks) = CountSum(agents[name].uses, NONE) =>
            \A worker \in DOMAIN workers :
                Occurrences(hist[name].picks, worker) = CountSum(agents[name].uses, worker)

\* Agent alpha with the pool w1, w1, w2 was reloaded with its counter at 1,
\* and its three calls since selected w1, w2, w1; the last of them failed.
C25_Witness ==
    /\ "alpha" \in DOMAIN agents
    /\ Pool(agents["alpha"].uses) = <<"w1", "w1", "w2">>
    /\ ~hist["alpha"].fresh
    /\ hist["alpha"].picks = <<"w1", "w2", "w1">>
    /\ call.op = "run_task"
    /\ call.agent = "alpha"
    /\ pc = "error"

\* C26: a run_task call adds or changes the counter of no agent but its own,
\* so the counter of an agent that has not been reloaded is the number of
\* its own calls that reached selection, modulo its pool length, however the
\* calls of other agents fell between them.
C26_CountersAreSeparate ==
    /\ call.op = "run_task" =>
           /\ DOMAIN rr_index \ {call.agent} = DOMAIN pre.rr_index \ {call.agent}
           /\ \A name \in DOMAIN rr_index \ {call.agent} : rr_index[name] = pre.rr_index[name]
    /\ \A name \in AgentNames \cap DOMAIN rr_index :
           hist[name].fresh =>
               rr_index[name] = hist[name].k % Len(Pool(agents[name].uses))

\* A call of beta has selected its worker after two calls of alpha and one
\* of beta: alpha's counter is still 2.
C26_Witness ==
    /\ PastSelection
    /\ call.agent = "beta"
    /\ hist["beta"].fresh /\ hist["beta"].k = 2
    /\ hist["alpha"].fresh /\ hist["alpha"].k = 2
    /\ Pool(agents["alpha"].uses) = <<"w1", "w1", "w2">>
    /\ pre.rr_index["alpha"] = 2
    /\ rr_index["alpha"] = 2

\* C27: throughout a run_task call and at its end, whether it returns a
\* result or raises, the workers, agents and tasks registries are those of
\* before the call, and of the round-robin counters only the calling agent's
\* may differ.
C27_RunTaskKeepsRegistries ==
    call.op = "run_task" =>
        /\ workers = pre.workers
        /\ agents = pre.agents
        /\ tasks = pre.tasks
        /\ \A name \in (DOMAIN rr_index \cup DOMAIN pre.rr_index) \ {call.agent} :
               /\ name \in DOMAIN rr_index
               /\ name \in DOMAIN pre.rr_index
               /\ rr_index[name] = pre.rr_index[name]

\* A call that returned a result after creating a file, starting a
\* subprocess and moving its agent's counter.
C27_Witness ==
    /\ call.op = "run_task"
    /\ pc = "done"
    /\ call.task = "build"
    /\ fs # pre.fs
    /\ spawned # <<>>
    /\ rr_index # pre.rr_index
    /\ tasks # EmptyDict

(***************************************************************************)
(* Directory loading that fails part of the way.                           *)
(***************************************************************************)
\* What a file that parses defines: the registry, the name and the
\* definition (of two tasks of one name, the later).
Definitions(file) ==
    LET document == parse_path(file).val
    IN  IF document.doc = "WorkerDocument"
        THEN {[registry |-> "workers", name |-> document.worker.name, def |-> document.worker]}
        ELSE IF document.doc = "AgentDocument"
        THEN {[registry |-> "agents", name |-> document.agent.name, def |-> document.agent]}
        ELSE {[registry |-> "tasks", name |-> name, def |-> LastDefinition(document, name)] :
                 name \in TaskNames(document)}

\* The last of the first n files loaded that defines the name in the
\* registry, or 0.
LastDefiner(registry, name, n) ==
    LET definers == {i \in 1..n : \E d \in Definitions(result.files[i].file) :
                                      d.registry = registry /\ d.name = name}
    IN  IF definers = {} THEN 0 ELSE CHOOSE i \in definers : \A j \in definers : j <= i

\* The registry is the one of before the call with the definitions of the
\* first n files of the load order put in, in order, and nothing else.
HoldsFirst(registry, now, before, n) ==
    /\ DOMAIN now = DOMAIN before
                    \cup {d.name : d \in {e \in UNION {Definitions(result.files[i].file) :
                                                              i \in 1..n} :
                                                e.registry = registry}}
    /\ \A name \in DOMAIN now :
           IF LastDefiner(registry, name, n) = 0
           THEN now[name] = before[name]
           ELSE \E d \in Definitions(result.files[LastDefiner(registry, name, n)].file) :
                    d.registry = registry /\ d.name = name /\ now[name] = d.def

\* C30: when the k-th file of the load order fails, the call raises that
\* file's error, the registries hold the definitions of the k-1 files before
\* it on top of what they held before, and nothing of the failing file or of
\* any file after it.
C30_DirectoryLoadNotTransactional ==
    (DirectoryLoaded /\ pc = "error") =>
        /\ result.loaded < Len(result.files)
        /\ raised = _load_single_file(Reg, result.files[result.loaded + 1].file).err
        /\ HoldsFirst("workers", workers, pre.workers, result.loaded)
        /\ HoldsFirst("agents", agents, pre.agents, result.loaded)
        /\ HoldsFirst("tasks", tasks, pre.tasks, result.loaded)

\* Into empty registries: the two worker files were loaded, the agent file
\* with a count of 0 failed, and the agent and task files after it were not
\* loaded.
C30_Witness ==
    /\ DirectoryLoaded
    /\ pc = "error"
    /\ pre.workers = EmptyDict /\ pre.agents = EmptyDict /\ pre.tasks = EmptyDict
    /\ result.loaded = 2
    /\ Len(result.files) = 5
    /\ result.files[3].file.text = zero_count.text
    /\ DOMAIN workers = {"w1", "w2"}
    /\ agents = EmptyDict
    /\ tasks = EmptyDict

(***************************************************************************)
(* load_file followed statement by statement, with an observer on another  *)
(* thread (the GUI's lists and counts) that reads the registries between   *)
(* any two of its statements.                                              *)
(***************************************************************************)
\* Lines 36-41: parse, copy the three registries, validate against the
\* copies.
BeginLoad(file) ==
    /\ pc = "idle"
    /\ call' = [NoCall EXCEPT !.op = "load_file", !.path = file.path, !.text = file.text]
    /\ pre' = Snapshot
    /\ seen' = NoSeen
    /\ LET parsed == parse_path(file)
           invalid == validate_document(parsed.val,
                          ValidationContext(workers, agents, tasks))
       IN  IF Failed(parsed) \/ invalid.type # ""
           THEN /\ raised' = IF Failed(parsed) THEN parsed.err ELSE invalid
                /\ pc' = "error"
                /\ frame' = frame
           ELSE /\ raised' = raised
                /\ pc' = "loading"
                /\ frame' = [file |-> file, document |-> parsed.val,
                             workers_copy |-> workers, agents_copy |-> agents,
                             tasks_copy |-> tasks, at |-> "merge", i |-> 1]
    /\ UNCHANGED <<gui, regVars, rr_index, cancelVars, fs, local, result, log, dispatched,
                   executed, spawned, polled, nth, hist>>

\* The merge that writes each task into the live registry as well.
MergeStepInPlace ==
    /\ pc = "loading"
    /\ frame.at = "merge"
    /\ frame.document.doc = "TaskDocument"
    /\ frame.i <= Len(frame.document.tasks)
    /\ frame' = [frame EXCEPT
           !.tasks_copy = Put(@, frame.document.tasks[frame.i].name,
                              frame.document.tasks[frame.i]),
           !.i = @ + 1]
    /\ tasks' = Put(tasks, frame.document.tasks[frame.i].name, frame.document.tasks[frame.i])
    /\ UNCHANGED <<gui, seen, workers, agents, rr_index, cancelVars, fs, callVars, hist>>

\* Lines 43-51: the document is put into the copy of its registry, a task
\* document one task at a time.
MergeStep ==
    /\ pc = "loading"
    /\ frame.at = "merge"
    /\ IF frame.document.doc = "WorkerDocument"
       THEN frame' = [frame EXCEPT
                !.workers_copy = Put(@, frame.document.worker.name, frame.document.worker),
                !.at = "workers"]
       ELSE IF frame.document.doc = "AgentDocument"
       THEN frame' = [frame EXCEPT
                !.agents_copy = Put(@, frame.document.agent.name, frame.document.agent),
                !.at = "workers"]
       ELSE IF frame.i <= Len(frame.document.tasks)
       THEN frame' = [frame EXCEPT
                !.tasks_copy = Put(@, frame.document.tasks[frame.i].name,
                                   frame.document.tasks[frame.i]),
                !.i = @ + 1]
       ELSE frame' = [frame EXCEPT !.at = "workers"]
    /\ UNCHANGED <<gui, seen, regVars, rr_index, cancelVars, fs, callVars, hist>>

\* Lines 54-57: self.workers = workers_copy; self.agents = agents_copy;
\* self.tasks = tasks_copy; return document.  One assignment a step.
Assign ==
    /\ pc = "loading"
    /\ frame.at \in {"workers", "agents", "tasks"}
    /\ workers' = IF frame.at = "workers" THEN frame.workers_copy ELSE workers
    /\ agents' = IF frame.at = "agents" THEN frame.agents_copy ELSE agents
    /\ tasks' = IF frame.at = "tasks" THEN frame.tasks_copy ELSE tasks
    /\ hist' = IF /\ frame.at = "agents"
                  /\ frame.document.doc = "AgentDocument"
                  /\ frame.document.agent.name \in DOMAIN rr_index
                  /\ frame.document.agent.name \in AgentNames
               THEN [hist EXCEPT ![frame.document.agent.name] =
                                  [fresh |-> FALSE, k |-> 0, picks |-> <<>>]]
               ELSE hist
    /\ frame' = IF frame.at = "workers" THEN [frame EXCEPT !.at = "agents"]
                ELSE IF frame.at = "agents" THEN [frame EXCEPT !.at = "tasks"]
                ELSE NoFrame
    /\ pc' = IF frame.at = "tasks" THEN "done" ELSE pc
    /\ result' = IF frame.at = "tasks" THEN frame.document ELSE result
    /\ UNCHANGED <<gui, seen, rr_index, cancelVars, fs, call, local, raised, log, dispatched,
                   executed, spawned, polled, nth, pre>>

\* refresh_runtime_lists and the counts of the dashboard, on the GUI thread:
\* one read of self._cli.runtime.agents, .workers or .tasks.
Read(registry) ==
    /\ seen' = [seen EXCEPT
           !.agents = IF registry = "agents" THEN agents ELSE @,
           !.workers = IF registry = "workers" THEN workers ELSE @,
           !.tasks = IF registry = "tasks" THEN tasks ELSE @,
           !.during = @ \/ pc = "loading"]
    /\ seen' # seen
    /\ UNCHANGED <<gui, frame, regVars, rr_index, cancelVars, fs, callVars, hist>>

\* The files loaded: a worker, an agent, task files of one, several and
\* twice-named tasks, and files that fail to parse and to validate.
ObservedFiles ==
    {worker_basic, agent_basic, task_basic, task_suite, task_twice, task_missing_semicolon,
     zero_count}

NextObserved ==
    \/ \E file \in ObservedFiles : BeginLoad(file)
    \/ MergeStep
    \/ Assign
    \/ \E registry \in {"agents", "workers", "tasks"} : Read(registry)
    \/ Return

SpecObserved == Init /\ [][NextObserved]_vars

\* What load_file makes of the registries the call found.
Merged(file) ==
    load_file([workers |-> pre.workers, agents |-> pre.agents, tasks |-> pre.tasks], file).reg

\* C28: at every point of a load_file call each live registry is either the
\* one the call found or the one it leaves, with all of the file's
\* definitions merged, and so is whatever an observer has read of a registry
\* during the call: of a file's tasks it sees none (beyond those it had) or
\* all; a call that fails shows nothing at all, and the call's result is
\* that of the merge done at once.
C28_NoPartialMerge ==
    \A file \in ObservedFiles :
        Loading(file) =>
            /\ workers \in {pre.workers, Merged(file).workers}
            /\ agents \in {pre.agents, Merged(file).agents}
            /\ tasks \in {pre.tasks, Merged(file).tasks}
            /\ pc = "done" => Reg = Merged(file)
            /\ pc = "error" => Reg = [workers |-> pre.workers, agents |-> pre.agents,
                                      tasks |-> pre.tasks]
            /\ seen.during =>
                   /\ seen.workers \in {None, pre.workers, Merged(file).workers}
                   /\ seen.agents \in {None, pre.agents, Merged(file).agents}
                   /\ seen.tasks \in {None, pre.tasks, Merged(file).tasks}

\* While task_suite was being loaded over a registry that held one of its
\* names, the observer read the tasks registry after three of its five tasks
\* were merged, and saw the registry as it was before the call.
C28_Witness ==
    /\ Loading(task_suite)
    /\ pc = "loading"
    /\ frame.at = "merge"
    /\ frame.i = 4
    /\ seen.during
    /\ seen.tasks = pre.tasks
    /\ DOMAIN pre.tasks = {"hello"}
    /\ DOMAIN frame.tasks_copy = {"hello", "noaccess", "build", "multi"}

=============================================================================
